---- MODULE Spec2Model ----
(***************************************************************************)
(* Fold controller of Aegisub (src/src/fold_controller.cpp/.h).            *)
(*                                                                         *)
(* The document is the ordered list Events of dialogue lines.  Every line  *)
(* carries at most one extradata entry under folds_key (a string           *)
(* "side;collapsed;id") and the cached FoldInfo the controller derives     *)
(* from it on each relevant commit: ReadFromExtradata, FixFolds, LinkFolds.*)
(*                                                                         *)
(* Rows are 1-based here (Row r of the model is Row r-1 of the program);   *)
(* visibleRow keeps the program's 0-based value.  Pointers to lines        *)
(* (parent, counterpart, nextVisible) hold the uid of the line, nullptr    *)
(* is 0.  Strings are sequences of one-character strings.                  *)
(***************************************************************************)
EXTENDS Integers, Sequences, FiniteSets, TLC

VARIABLES
    Events,       \* context->ass->Events: the lines, each [uid, extra, Fold, streak]
    max_fold_id,  \* FoldController::max_fold_id
    maxdepth,     \* FoldController::maxdepth
    cycles,       \* number of runs of UpdateFoldInfo so far, up to MaxCycles
    calls,        \* number of calls of the public operations so far
    lastOp,       \* the last step: operation, arguments, whether it committed
    written,      \* rows whose extradata entry the last step set or deleted
    minted,       \* the ids the last step took from ++max_fold_id, in order
    linkUB,       \* LinkFolds has read foldStack.back() of an empty stack
    clipboard     \* the line the host cut last (<<>>: none), see CutLine

vars == <<Events, max_fold_id, maxdepth, cycles, calls, lastOp, written, minted, linkUB, clipboard>>

(***************************************************************************)
(* Bounds of the model.                                                    *)
(***************************************************************************)
\* number of dialogue lines of the document
NumLines == 4
\* ids found in the annotations of the loaded file are 1..MaxId
MaxId == 2
\* number of Repair+Link cycles (runs of the pre-commit hook) explored
MaxCycles == 2
\* number of calls of the public operations explored
MaxCalls == 1
\* Spec: the loaded file has at most MaxMarkers lines with a fold entry
\* (SpecRepair loads files with a fold entry on any of the lines)
MaxMarkers == 2
\* SpecOps: the vectors of lines given to the *FoldsAt operations hold up to
\* MaxGiven lines
MaxGiven == 2
\* SpecCodec: the ids of the descriptors are -MaxCodecId..MaxCodecId
MaxCodecId == 30
\* SpecWide: number of lines of the document
WideLines == 6
\* SpecCross: number of lines of the document
CrossLines == 5
\* SpecEdit: the loaded file has at most EditMarkers lines with a fold entry
EditMarkers == 3
\* SpecEdit: number of lines the host cuts or pastes; a behaviour ends with
\* the last of them
MaxEdits == 2
\* SpecEdit: the host cuts and pastes while the largest invalidCount is at
\* most EditWindow or at least InvalidThreshold - EditWindow
EditWindow == 1

(***************************************************************************)
(* Program constants.                                                      *)
(***************************************************************************)
\* InvalidateLineFold: "if (++line.Fold.invalidCount > 100)"
InvalidThreshold == 100

nullptr == 0

Rows == 1..NumLines

(***************************************************************************)
(* Bind(v, F) is F(v) with v evaluated once: "auto x = v; return F(x);".   *)
(***************************************************************************)
Bind(v, F(_)) == CHOOSE res \in {F(x) : x \in {v}} : TRUE

(***************************************************************************)
(* Strings: agi::format("%d;%d;%d"), agi::Split, agi::util::try_parse.     *)
(***************************************************************************)
Digits == <<"0", "1", "2", "3", "4", "5", "6", "7", "8", "9">>

RECURSIVE NatToStr(_)
NatToStr(n) ==
    IF n < 10 THEN <<Digits[n + 1]>>
    ELSE NatToStr(n \div 10) \o <<Digits[(n % 10) + 1]>>

\* "%d"
IntToStr(n) == IF n < 0 THEN <<"-">> \o NatToStr(-n) ELSE NatToStr(n)

BoolToInt(b) == IF b THEN 1 ELSE 0

\* FormatFold with the first two fields in the other order
FormatFoldSwapped(side, collapsed, id) ==
    IntToStr(BoolToInt(collapsed)) \o <<";">> \o IntToStr(BoolToInt(side))
        \o <<";">> \o IntToStr(id)

\* agi::format("%d;%d;%d", int(side), int(collapsed), int(id))
FormatFold(side, collapsed, id) ==
    IntToStr(BoolToInt(side)) \o <<";">> \o IntToStr(BoolToInt(collapsed))
        \o <<";">> \o IntToStr(id)

\* agi::Split(fields, value, ';'): the tokens between the delimiters;
\* the characters from position i on, cur the token begun
RECURSIVE SplitFrom(_, _, _)
SplitFrom(str, i, cur) ==
    IF i > Len(str) THEN <<cur>>
    ELSE IF str[i] = ";" THEN <<cur>> \o SplitFrom(str, i + 1, <<>>)
    ELSE SplitFrom(str, i + 1, Append(cur, str[i]))

Split(str) == SplitFrom(str, 1, <<>>)

DigitChars == {"0", "1", "2", "3", "4", "5", "6", "7", "8", "9"}

IsDigit(c) == c \in DigitChars

DigitVal(c) ==
    CASE c = "0" -> 0 [] c = "1" -> 1 [] c = "2" -> 2 [] c = "3" -> 3
      [] c = "4" -> 4 [] c = "5" -> 5 [] c = "6" -> 6 [] c = "7" -> 7
      [] c = "8" -> 8 [] c = "9" -> 9

\* the number the digits str[i..] continue, acc read so far
RECURSIVE StrToNat(_, _, _)
StrToNat(str, i, acc) ==
    IF i > Len(str) THEN acc
    ELSE StrToNat(str, i + 1, acc * 10 + DigitVal(str[i]))

\* agi::util::try_parse(str, &int): whether str is an integer literal
CanParse(str) ==
    /\ str # <<>>
    /\ IF str[1] = "-"
       THEN Len(str) > 1 /\ \A i \in 2..Len(str) : IsDigit(str[i])
       ELSE \A i \in 1..Len(str) : IsDigit(str[i])

\* the value try_parse stores when it succeeds
ParseInt(str) ==
    IF str[1] = "-" THEN 0 - StrToNat(str, 2, 0) ELSE StrToNat(str, 1, 0)

(***************************************************************************)
(* FoldInfo and the lines.                                                 *)
(***************************************************************************)
\* class FoldInfo, default member initialisers
DefaultFoldInfo ==
    [extraExists |-> FALSE, valid |-> FALSE, id |-> 0, collapsed |-> FALSE,
     side |-> FALSE, visible |-> TRUE, counterpart |-> nullptr,
     parent |-> nullptr, nextVisible |-> nullptr, invalidCount |-> 0,
     visibleRow |-> -1]

\* context->ass->SetExtradataValue(line, folds_key, value)
SetExtradataValue(line, value) == [line EXCEPT !.extra = <<value>>]

\* UpdateLineExtradata that leaves the stored entry as it is
UpdateLineExtradataNoWrite(line) == line

\* context->ass->DeleteExtradataValue(line, folds_key)
DeleteExtradataValue(line) == [line EXCEPT !.extra = <<>>]

UpdateLineExtradata(line) ==
    IF line.Fold.extraExists
    THEN SetExtradataValue(line,
             FormatFold(line.Fold.side, line.Fold.collapsed, line.Fold.id))
    ELSE DeleteExtradataValue(line)

(***************************************************************************)
(* ReadFromExtradata                                                       *)
(***************************************************************************)
\* ReadFields that takes the first three of three or more fields
ReadFieldsOfMore(line, fields) ==
    IF /\ Len(fields) >= 3
       /\ CanParse(fields[1])
       /\ CanParse(fields[2])
       /\ CanParse(fields[3])
    THEN [line EXCEPT !.Fold.side = (ParseInt(fields[1]) # 0),
                      !.Fold.collapsed = (ParseInt(fields[2]) # 0),
                      !.Fold.id = ParseInt(fields[3]),
                      !.Fold.extraExists = TRUE,
                      !.Fold.valid = TRUE]
    ELSE [line EXCEPT !.Fold.extraExists = FALSE,
                      !.Fold.valid = FALSE]

\* the line after the fields of its entry were split
ReadFields(line, fields) ==
    IF /\ Len(fields) = 3
       /\ CanParse(fields[1])
       /\ CanParse(fields[2])
       /\ CanParse(fields[3])
    THEN [line EXCEPT !.Fold.side = (ParseInt(fields[1]) # 0),
                      !.Fold.collapsed = (ParseInt(fields[2]) # 0),
                      !.Fold.id = ParseInt(fields[3]),
                      !.Fold.extraExists = TRUE,
                      !.Fold.valid = TRUE]
    ELSE [line EXCEPT !.Fold.extraExists = FALSE,
                      !.Fold.valid = FALSE]

\* the body of the loop over the lines, for one line
ReadLine(line) ==
    IF line.extra = <<>>
    THEN [line EXCEPT !.Fold.extraExists = FALSE, !.Fold.valid = FALSE]
    ELSE Bind(Split(line.extra[1]), LAMBDA fields : ReadFields(line, fields))

\* mutant of MaxParsedId: "max_fold_id = line->Fold.id", the last id read
MaxParsedIdLast(ev) ==
    Bind({r \in 1..Len(ev) : ev[r].Fold.extraExists},
         LAMBDA S : IF S = {} THEN 0
                    ELSE ev[CHOOSE m \in S : \A x \in S : x <= m].Fold.id)

\* max_fold_id after the loop: the largest id read, 0 at least
MaxParsedId(ev) ==
    Bind({0} \cup {ev[r].Fold.id : r \in {q \in 1..Len(ev) : ev[q].Fold.extraExists}},
         LAMBDA S : CHOOSE m \in S : \A x \in S : x <= m)

\* returns the lines and the new max_fold_id
ReadFromExtradata(ev) ==
    Bind([r \in 1..Len(ev) |-> ReadLine(ev[r])],
         LAMBDA ev2 : [ev |-> ev2, max_fold_id |-> MaxParsedId(ev2)])

(***************************************************************************)
(* FixFolds                                                                *)
(*                                                                         *)
(* The scan state: ev (the lines), foldStack (rows of the openers          *)
(* descended into), foldHeads (ids with a starter), completedFolds,        *)
(* idRemap (a function), max_fold_id, and the bookkeeping of the model:    *)
(* written (rows whose extradata entry was set or deleted) and minted      *)
(* (the ids taken from ++max_fold_id, in order).                           *)
(***************************************************************************)
\* mutant of InvalidateLineFold: ">=" for ">"
InvalidateLineFoldAtThreshold(st, r) ==
    IF st.ev[r].Fold.invalidCount + 1 >= InvalidThreshold
    THEN [st EXCEPT !.ev[r] = UpdateLineExtradata(
                                  [@ EXCEPT !.Fold.valid = FALSE,
                                            !.Fold.invalidCount = @ + 1,
                                            !.Fold.extraExists = FALSE]),
                    !.written = @ \cup {r}]
    ELSE [st EXCEPT !.ev[r].Fold.valid = FALSE,
                    !.ev[r].Fold.invalidCount = @ + 1]

\* InvalidateLineFold applied to row r of the scan state
InvalidateLineFold(st, r) ==
    IF st.ev[r].Fold.invalidCount + 1 > InvalidThreshold
    THEN [st EXCEPT !.ev[r] = UpdateLineExtradata(
                                  [@ EXCEPT !.Fold.valid = FALSE,
                                            !.Fold.invalidCount = @ + 1,
                                            !.Fold.extraExists = FALSE]),
                    !.written = @ \cup {r}]
    ELSE [st EXCEPT !.ev[r].Fold.valid = FALSE,
                    !.ev[r].Fold.invalidCount = @ + 1]

\* while (idRemap.count(id)) id = idRemap[id];
RECURSIVE ResolveRemap(_, _)
ResolveRemap(idRemap, id) ==
    IF id \in DOMAIN idRemap THEN ResolveRemap(idRemap, idRemap[id]) ELSE id

\* completedFolds[id] = true
Complete(st, id) == [st EXCEPT !.completedFolds = @ \cup {id}]

\* foldStack.pop_back()
PopBack(st) == [st EXCEPT !.foldStack = SubSeq(@, 1, Len(@) - 1)]

\* the row on top of the stack
Back(st) == st.foldStack[Len(st.foldStack)]

\* mutant of EraseInward: the entries above i are popped and stay valid
RECURSIVE EraseInwardKeepValid(_, _)
EraseInwardKeepValid(st, i) ==
    IF Len(st.foldStack) <= i THEN st
    ELSE Bind(PopBack(Complete(st, st.ev[Back(st)].Fold.id)),
              LAMBDA s : EraseInwardKeepValid(s, i))

\* EraseInward that does not put the ids it erases into completedFolds
RECURSIVE EraseInwardNoComplete(_, _)
EraseInwardNoComplete(st, i) ==
    IF Len(st.foldStack) <= i THEN st
    ELSE Bind(InvalidateLineFold(st, Back(st)), LAMBDA s2 :
         Bind(PopBack(s2), LAMBDA s3 : EraseInwardNoComplete(s3, i)))

\* "Erase all folds further inward": invalidate and pop the entries above i
RECURSIVE EraseInward(_, _)
EraseInward(st, i) ==
    IF Len(st.foldStack) <= i THEN st
    ELSE Bind(Complete(st, st.ev[Back(st)].Fold.id), LAMBDA s1 :
         Bind(InvalidateLineFold(s1, Back(s1)), LAMBDA s2 :
         Bind(PopBack(s2), LAMBDA s3 : EraseInward(s3, i))))

\* SyncAndPop that sets collapsed without asking for the update
SyncAndPopNoUpdate(st, r) ==
    [st |-> PopBack([st EXCEPT !.ev[r].Fold.collapsed =
                                   st.ev[Back(st)].Fold.collapsed]),
     update |-> FALSE]

\* SyncAndPop that asks for the update of every matched ender
SyncAndPopAlwaysUpdate(st, r) ==
    [st |-> PopBack([st EXCEPT !.ev[r].Fold.collapsed =
                                   st.ev[Back(st)].Fold.collapsed]),
     update |-> TRUE]

\* SyncAndPop that reconciles to the ender: its collapsed goes to the head
SyncAndPopToOpener(st, r) ==
    IF st.ev[r].Fold.collapsed # st.ev[Back(st)].Fold.collapsed
    THEN [st |-> PopBack([st EXCEPT !.ev[Back(st)].Fold.collapsed =
                                        st.ev[r].Fold.collapsed]),
          update |-> TRUE]
    ELSE [st |-> PopBack(st), update |-> FALSE]

\* "Sync the found fold and pop the stack": the head is on top of the stack
SyncAndPop(st, r) ==
    IF st.ev[r].Fold.collapsed # st.ev[Back(st)].Fold.collapsed
    THEN [st |-> PopBack([st EXCEPT !.ev[r].Fold.collapsed =
                                        st.ev[Back(st)].Fold.collapsed]),
          update |-> TRUE]
    ELSE [st |-> PopBack(st), update |-> FALSE]

\* MatchEnder that forgets the id of the fold it found: the id is not
\* completed and is no head any more
MatchEnderReleasesId(st, r) ==
    Bind({i \in 1..Len(st.foldStack) :
              st.ev[st.foldStack[i]].Fold.id = st.ev[r].Fold.id},
         LAMBDA hits :
             IF hits = {}
             THEN [st |-> Bind(Complete(st, st.ev[r].Fold.id),
                               LAMBDA s : InvalidateLineFold(s, r)),
                   update |-> FALSE]
             ELSE Bind([st EXCEPT !.foldHeads = @ \ {st.ev[r].Fold.id}], LAMBDA s0 :
                  Bind(EraseInward(s0, CHOOSE k \in hits : \A m \in hits : m <= k),
                       LAMBDA s1 : SyncAndPop(s1, r))))

\* the closing delimiter at row r whose id has a head: scan the stack;
\* returns the scan state and whether the line needs an update
MatchEnder(st, r) ==
    Bind({i \in 1..Len(st.foldStack) :
              st.ev[st.foldStack[i]].Fold.id = st.ev[r].Fold.id},
         LAMBDA hits :
             IF hits = {}
             THEN [st |-> Bind(Complete(st, st.ev[r].Fold.id),
                               LAMBDA s : InvalidateLineFold(s, r)),
                   update |-> FALSE]
             ELSE Bind(Complete(st, st.ev[r].Fold.id), LAMBDA s0 :
                  Bind(EraseInward(s0, CHOOSE k \in hits : \A m \in hits : m <= k),
                       LAMBDA s1 : SyncAndPop(s1, r))))

\* mutant of RemapLine: the new id of a duplicate is not put into idRemap
RemapLineNoRecord(st, r) ==
    Bind(ResolveRemap(st.idRemap, st.ev[r].Fold.id), LAMBDA id1 :
        IF id1 \in st.completedFolds
        THEN [st |-> [st EXCEPT
                        !.max_fold_id = @ + 1,
                        !.minted = Append(@, st.max_fold_id + 1),
                        !.ev[r].Fold.id = st.max_fold_id + 1],
              remapped |-> st.ev[r].Fold.id \in DOMAIN st.idRemap,
              duplicate |-> TRUE]
        ELSE [st |-> [st EXCEPT !.ev[r].Fold.id = id1],
              remapped |-> st.ev[r].Fold.id \in DOMAIN st.idRemap,
              duplicate |-> FALSE])

\* the first part of the loop body: the id of the line goes through idRemap
\* and, when it is completed already, is replaced by a new one
RemapLine(st, r) ==
    Bind(ResolveRemap(st.idRemap, st.ev[r].Fold.id), LAMBDA id1 :
        IF id1 \in st.completedFolds
        THEN [st |-> [st EXCEPT
                        !.max_fold_id = @ + 1,
                        !.minted = Append(@, st.max_fold_id + 1),
                        !.idRemap = [x \in DOMAIN st.idRemap \cup {id1} |->
                                        IF x = id1 THEN st.max_fold_id + 1
                                        ELSE st.idRemap[x]],
                        !.ev[r].Fold.id = st.max_fold_id + 1],
              remapped |-> st.ev[r].Fold.id \in DOMAIN st.idRemap,
              duplicate |-> TRUE]
        ELSE [st |-> [st EXCEPT !.ev[r].Fold.id = id1],
              remapped |-> st.ev[r].Fold.id \in DOMAIN st.idRemap,
              duplicate |-> FALSE])

\* PairLine that does not invalidate an ender whose id has no starter
PairLineKeepsStrayEnder(st, r) ==
    IF ~st.ev[r].Fold.side
    THEN IF st.ev[r].Fold.id \in st.foldHeads
         THEN [st |-> InvalidateLineFold(st, r), update |-> FALSE]
         ELSE [st |-> [st EXCEPT !.foldHeads = @ \cup {st.ev[r].Fold.id},
                                 !.foldStack = Append(@, r)],
               update |-> FALSE]
    ELSE IF st.ev[r].Fold.id \notin st.foldHeads
         THEN [st |-> Complete(st, st.ev[r].Fold.id), update |-> FALSE]
         ELSE MatchEnder(st, r)

\* PairLine that pushes a starter whose id has a starter already
PairLinePushesDuplicate(st, r) ==
    IF ~st.ev[r].Fold.side
    THEN [st |-> [st EXCEPT !.foldHeads = @ \cup {st.ev[r].Fold.id},
                            !.foldStack = Append(@, r)],
          update |-> FALSE]
    ELSE IF st.ev[r].Fold.id \notin st.foldHeads
         THEN [st |-> Bind(Complete(st, st.ev[r].Fold.id),
                           LAMBDA s : InvalidateLineFold(s, r)),
               update |-> FALSE]
         ELSE MatchEnder(st, r)

\* the second part: the line starts or ends a fold
PairLine(st, r) ==
    IF ~st.ev[r].Fold.side
    THEN IF st.ev[r].Fold.id \in st.foldHeads
         THEN [st |-> InvalidateLineFold(st, r), update |-> FALSE]
         ELSE [st |-> [st EXCEPT !.foldHeads = @ \cup {st.ev[r].Fold.id},
                                 !.foldStack = Append(@, r)],
               update |-> FALSE]
    ELSE IF st.ev[r].Fold.id \notin st.foldHeads
         THEN [st |-> Bind(Complete(st, st.ev[r].Fold.id),
                           LAMBDA s : InvalidateLineFold(s, r)),
               update |-> FALSE]
         ELSE MatchEnder(st, r)

\* mutant of NeedsUpdate: the line that got a new id for a duplicate is not
\* written back
NeedsUpdateNotDuplicate(remapped, duplicate, synced) == remapped \/ synced

\* needs_update at the end of the loop body: the id was taken from idRemap,
\* the id was a duplicate and got a new one, the collapsed flag was synced
NeedsUpdate(remapped, duplicate, synced) == remapped \/ duplicate \/ synced

\* the body of the loop over the lines, for row r
FixLine(st, r) ==
    IF ~st.ev[r].Fold.extraExists THEN st
    ELSE Bind(RemapLine(st, r), LAMBDA m :
         Bind(PairLine(m.st, r), LAMBDA p :
             IF NeedsUpdate(m.remapped, m.duplicate, p.update)
             THEN [p.st EXCEPT !.ev[r] = UpdateLineExtradata(@),
                               !.written = @ \cup {r}]
             ELSE p.st))

RECURSIVE FixScan(_, _)
FixScan(st, r) ==
    IF r > Len(st.ev) THEN st
    ELSE Bind(FixLine(st, r), LAMBDA s : FixScan(s, r + 1))

\* "All remaining lines are invalid"
RECURSIVE FixRemaining(_, _)
FixRemaining(st, k) ==
    IF k > Len(st.foldStack) THEN st
    ELSE Bind(InvalidateLineFold(st, st.foldStack[k]),
              LAMBDA s : FixRemaining(s, k + 1))

FixFolds(ev, maxid, wr, mint) ==
    Bind(FixScan([ev |-> ev, foldStack |-> <<>>, foldHeads |-> {},
                  completedFolds |-> {}, idRemap |-> <<>>,
                  max_fold_id |-> maxid, written |-> wr, minted |-> mint], 1),
         LAMBDA s : FixRemaining(s, 1))

(***************************************************************************)
(* LinkFolds                                                               *)
(*                                                                         *)
(* The scan state: ev, foldStack (rows), lastVisible (a row, 0 for         *)
(* nullptr), visibleRow, highestFolded, maxdepth, and ub: foldStack.back() *)
(* was read on an empty stack.                                             *)
(***************************************************************************)
\* mutant of Visible: ">=" for ">"
VisibleOffByOne(highestFolded, depth) == highestFolded >= depth

\* line->Fold.visible = highestFolded > (int) foldStack.size()
Visible(highestFolded, depth) == highestFolded > depth

\* mutant of NextVisibleRow: hidden lines are counted too
NextVisibleRowAlways(visibleRow, vis) == visibleRow + 1

\* visibleRow after a line: "if (line->Fold.visible) { ... visibleRow++; }"
NextVisibleRow(visibleRow, vis) == IF vis THEN visibleRow + 1 ELSE visibleRow

\* LinkVisible that takes every line for lastVisible
LinkVisibleChainsHidden(st, r, vis) ==
    [st EXCEPT
        !.ev = [q \in 1..Len(st.ev) |->
                   IF q = r
                   THEN [st.ev[r] EXCEPT
                            !.Fold.parent = IF st.foldStack = <<>> THEN nullptr
                                            ELSE st.ev[Back(st)].uid,
                            !.Fold.nextVisible = nullptr,
                            !.Fold.visible = vis,
                            !.Fold.visibleRow = st.visibleRow]
                   ELSE IF vis /\ q = st.lastVisible
                   THEN [st.ev[q] EXCEPT !.Fold.nextVisible = st.ev[r].uid]
                   ELSE st.ev[q]],
        !.lastVisible = r,
        !.visibleRow = NextVisibleRow(@, vis)]

\* the first part of the loop body: parent, nextVisible, visible, visibleRow
\* of row r, and the chain of visible lines
LinkVisible(st, r, vis) ==
    [st EXCEPT
        !.ev = [q \in 1..Len(st.ev) |->
                   IF q = r
                   THEN [st.ev[r] EXCEPT
                            !.Fold.parent = IF st.foldStack = <<>> THEN nullptr
                                            ELSE st.ev[Back(st)].uid,
                            !.Fold.nextVisible = nullptr,
                            !.Fold.visible = vis,
                            !.Fold.visibleRow = st.visibleRow]
                   ELSE IF vis /\ q = st.lastVisible
                   THEN [st.ev[q] EXCEPT !.Fold.nextVisible = st.ev[r].uid]
                   ELSE st.ev[q]],
        !.lastVisible = IF vis THEN r ELSE @,
        !.visibleRow = NextVisibleRow(@, vis)]

\* the second part: row r starts or ends a valid fold
LinkStack(st, r) ==
    IF st.ev[r].Fold.valid /\ ~st.ev[r].Fold.side
    THEN [st EXCEPT
             !.foldStack = Append(@, r),
             !.highestFolded =
                 IF ~st.ev[r].Fold.collapsed /\ @ = Len(st.foldStack) + 1
                 THEN @ + 1 ELSE @,
             !.maxdepth = IF Len(st.foldStack) + 1 > @
                          THEN Len(st.foldStack) + 1 ELSE @]
    ELSE IF st.ev[r].Fold.valid /\ st.ev[r].Fold.side
    THEN IF st.foldStack = <<>>
         \* foldStack.back() on an empty vector: undefined behaviour
         THEN [st EXCEPT !.ub = TRUE]
         ELSE [st EXCEPT
                  !.ev[r].Fold.counterpart = st.ev[Back(st)].uid,
                  !.ev[Back(st)].Fold.counterpart = st.ev[r].uid,
                  !.highestFolded = IF @ >= Len(st.foldStack)
                                    THEN Len(st.foldStack) ELSE @,
                  !.foldStack = SubSeq(@, 1, Len(@) - 1)]
    ELSE st

\* LinkLine that pushes and pops before it sets parent and visible
LinkLineStackFirst(st, r) ==
    Bind(LinkStack(st, r),
         LAMBDA s : LinkVisible(s, r, Visible(s.highestFolded, Len(s.foldStack))))

\* the body of the loop over the lines, for row r
LinkLine(st, r) ==
    Bind(LinkVisible(st, r, Visible(st.highestFolded, Len(st.foldStack))),
         LAMBDA s : LinkStack(s, r))

RECURSIVE LinkScan(_, _)
LinkScan(st, r) ==
    IF r > Len(st.ev) THEN st
    ELSE Bind(LinkLine(st, r), LAMBDA s : LinkScan(s, r + 1))

LinkFolds(ev) ==
    LinkScan([ev |-> ev, foldStack |-> <<>>, lastVisible |-> 0,
              visibleRow |-> 0, highestFolded |-> 1, maxdepth |-> 0,
              ub |-> FALSE], 1)

(***************************************************************************)
(* UpdateFoldInfo: ReadFromExtradata, FixFolds, LinkFolds                  *)
(***************************************************************************)
UpdateFoldInfo(ev, wr, mint) ==
    Bind(ReadFromExtradata(ev), LAMBDA rd :
    Bind(FixFolds(rd.ev, rd.max_fold_id, wr, mint), LAMBDA fx :
    Bind(LinkFolds(fx.ev), LAMBDA lk :
        [ev |-> lk.ev, max_fold_id |-> fx.max_fold_id, maxdepth |-> lk.maxdepth,
         written |-> fx.written, minted |-> fx.minted, ub |-> lk.ub])))

(***************************************************************************)
(* Commit types (AssFile::CommitType): a type is the set of its flags,     *)
(* COMMIT_NEW is the empty mask.                                           *)
(***************************************************************************)
COMMIT_NEW == {}
COMMIT_DIAG_ADDREM == {"DIAG_ADDREM"}
COMMIT_DIAG_TEXT == {"DIAG_TEXT"}
COMMIT_ORDER == {"ORDER"}
COMMIT_FOLD == {"FOLD"}

\* HookRuns without COMMIT_FOLD in the mask
HookRunsNotForFold(type) ==
    \/ type \cap (COMMIT_DIAG_ADDREM \cup COMMIT_ORDER) # {}
    \/ type = COMMIT_NEW

\* the condition of FixFoldsPreCommit
HookRuns(type) ==
    \/ type \cap (COMMIT_FOLD \cup COMMIT_DIAG_ADDREM \cup COMMIT_ORDER) # {}
    \/ type = COMMIT_NEW

\* bookkeeping of the model: streak of a line is the number of cycles in a
\* row, up to the last one, that invalidated its marker (before: the lines
\* the cycle started from, after: the lines it left)
CountStreak(before, after) ==
    [r \in 1..Len(after) |->
        [after[r] EXCEPT !.streak =
            IF after[r].Fold.invalidCount > before[r].Fold.invalidCount
            THEN @ + 1 ELSE 0]]

\* FixFoldsPreCommit without the test of the type
FixFoldsPreCommitAlways(type, ev, maxid, wr, mint) ==
    \E u \in {UpdateFoldInfo(ev, wr, mint)} :
        /\ Events' = CountStreak(ev, u.ev)
        /\ max_fold_id' = u.max_fold_id
        /\ maxdepth' = u.maxdepth
        /\ written' = u.written
        /\ minted' = u.minted
        /\ linkUB' = (linkUB \/ u.ub)
        /\ cycles' = IF cycles < MaxCycles THEN cycles + 1 ELSE cycles

\* context->ass->Commit(_, type) on the lines ev: the pre-commit listener
\* FixFoldsPreCommit(type, _) and the state it leaves
FixFoldsPreCommit(type, ev, maxid, wr, mint) ==
    IF HookRuns(type)
    THEN \E u \in {UpdateFoldInfo(ev, wr, mint)} :
             /\ Events' = CountStreak(ev, u.ev)
             /\ max_fold_id' = u.max_fold_id
             /\ maxdepth' = u.maxdepth
             /\ written' = u.written
             /\ minted' = u.minted
             /\ linkUB' = (linkUB \/ u.ub)
             /\ cycles' = IF cycles < MaxCycles THEN cycles + 1 ELSE cycles
    ELSE /\ Events' = ev
         /\ max_fold_id' = maxid
         /\ written' = wr
         /\ minted' = mint
         /\ UNCHANGED <<maxdepth, linkUB, cycles>>

(***************************************************************************)
(* AddFold                                                                 *)
(***************************************************************************)
\* mutant of FoldDepthScan: "return true" after the loop
RECURSIVE FoldDepthScanNoFinalCheck(_, _, _, _)
FoldDepthScanNoFinalCheck(ev, r, e, folddepth) ==
    IF r >= e THEN TRUE
    ELSE Bind(IF ev[r].Fold.valid
              THEN folddepth + (IF ev[r].Fold.side THEN -1 ELSE 1)
              ELSE folddepth,
              LAMBDA d : IF d < 0 THEN FALSE ELSE FoldDepthScanNoFinalCheck(ev, r + 1, e, d))

\* the loop of CanAddFold: rows r..e-1, folddepth so far
RECURSIVE FoldDepthScan(_, _, _, _)
FoldDepthScan(ev, r, e, folddepth) ==
    IF r >= e THEN folddepth = 0
    ELSE Bind(IF ev[r].Fold.valid
              THEN folddepth + (IF ev[r].Fold.side THEN -1 ELSE 1)
              ELSE folddepth,
              LAMBDA d : IF d < 0 THEN FALSE ELSE FoldDepthScan(ev, r + 1, e, d))

\* mutant of CanAddFold: the lines start and end are not looked at
CanAddFoldNoEndpointCheck(ev, start, end) == FoldDepthScan(ev, start, end, 0)

CanAddFold(ev, start, end) ==
    IF ev[start].Fold.valid \/ ev[end].Fold.valid THEN FALSE
    ELSE FoldDepthScan(ev, start, end, 0)

\* mutant of RawAddFold: "int id = max_fold_id", the largest id in use
RawAddFoldReusesId(ev, start, end, collapsed, id) ==
    [[ev EXCEPT ![start] =
             SetExtradataValue(@, FormatFold(FALSE, collapsed, id - 1))]
        EXCEPT ![end] =
             SetExtradataValue(@, FormatFold(TRUE, collapsed, id - 1))]

\* the lines after RawAddFold(start, end, collapsed) took id
RawAddFold(ev, start, end, collapsed, id) ==
    [[ev EXCEPT ![start] =
             SetExtradataValue(@, FormatFold(FALSE, collapsed, id))]
        EXCEPT ![end] = SetExtradataValue(@, FormatFold(TRUE, collapsed, id))]

\* the collapsed value AddFold hands to RawAddFold
AddFoldCollapsed(collapsed) == TRUE

Op(op, type, start, end, collapsed, committed) ==
    [op |-> op, type |-> type, start |-> start, end |-> end,
     collapsed |-> collapsed, committed |-> committed]

AddFold(start, end, collapsed) ==
    /\ cycles >= 1
    /\ calls < MaxCalls
    /\ calls' = calls + 1
    /\ UNCHANGED clipboard
    /\ IF CanAddFold(Events, start, end)
       THEN /\ \E ev \in {RawAddFold(Events, start, end,
                                       AddFoldCollapsed(collapsed),
                                       max_fold_id + 1)} :
                   FixFoldsPreCommit(COMMIT_FOLD, ev, max_fold_id + 1,
                                     {start, end}, <<max_fold_id + 1>>)
            /\ lastOp' = Op("AddFold", COMMIT_FOLD, start, end, collapsed, TRUE)
       ELSE /\ written' = {}
            /\ minted' = <<>>
            /\ lastOp' = Op("AddFold", {}, start, end, collapsed, FALSE)
            /\ UNCHANGED <<Events, max_fold_id, maxdepth, cycles, linkUB>>

(***************************************************************************)
(* Commits of the host: the file is loaded (COMMIT_NEW), later commits     *)
(* come with any of the types.                                             *)
(***************************************************************************)
CommitTypes == {COMMIT_NEW, COMMIT_DIAG_ADDREM, COMMIT_DIAG_TEXT}

Commit(type) ==
    /\ cycles = 0 => type = COMMIT_NEW
    /\ HookRuns(type) => cycles < MaxCycles
    /\ FixFoldsPreCommit(type, Events, max_fold_id, {}, <<>>)
    /\ lastOp' = Op("Commit", type, 0, 0, FALSE, TRUE)
    /\ UNCHANGED <<calls, clipboard>>

(***************************************************************************)
(* The loaded file: every line has no fold entry or any entry              *)
(* "side;collapsed;id" with an id of 1..MaxId.                             *)
(***************************************************************************)
InitExtras ==
    {<<>>} \cup {<<FormatFold(s, c, i)>> : s \in BOOLEAN, c \in BOOLEAN, i \in 1..MaxId}

\* the state after construction, the file holding the entries x
InitWith(x) ==
    /\ Events = [r \in DOMAIN x |-> [uid |-> r, extra |-> x[r],
                                 Fold |-> DefaultFoldInfo, streak |-> 0]]
    /\ max_fold_id = 0
    /\ maxdepth = 0
    /\ cycles = 0
    /\ calls = 0
    /\ lastOp = Op("Init", {}, 0, 0, FALSE, FALSE)
    /\ written = {}
    /\ minted = <<>>
    /\ linkUB = FALSE
    /\ clipboard = <<>>

Init ==
    \E x \in [Rows -> InitExtras] :
        /\ Cardinality({r \in Rows : x[r] # <<>>}) <= MaxMarkers
        /\ InitWith(x)

Next ==
    \/ \E type \in CommitTypes : Commit(type)
    \/ \E start \in Rows, end \in Rows, collapsed \in BOOLEAN :
           AddFold(start, end, collapsed)

Spec == Init /\ [][Next]_vars

(***************************************************************************)
(* SpecRepair: any file is loaded and the host commits.                    *)
(***************************************************************************)
InitRepair == \E x \in [Rows -> InitExtras] : InitWith(x)

NextRepair == \E type \in CommitTypes : Commit(type)

SpecRepair == InitRepair /\ [][NextRepair]_vars

(***************************************************************************)
(* SpecLong: the file is loaded and the host goes on committing, with no   *)
(* edit of the lines.  The host commits again and again (weak fairness of  *)
(* the commits that run the hook).                                         *)
(***************************************************************************)
Recommit(type) ==
    /\ cycles = 0 => type = COMMIT_NEW
    /\ FixFoldsPreCommit(type, Events, max_fold_id, {}, <<>>)
    /\ lastOp' = Op("Commit", type, 0, 0, FALSE, TRUE)
    /\ UNCHANGED <<calls, clipboard>>

HookCommit == \E type \in CommitTypes : HookRuns(type) /\ Recommit(type)

\* the loaded file: at most MaxMarkers entries, of folds that are not collapsed
InitLong ==
    \E x \in [Rows -> {<<>>} \cup {<<FormatFold(s, FALSE, i)>> :
                                      s \in BOOLEAN, i \in 1..MaxId}] :
        /\ Cardinality({r \in Rows : x[r] # <<>>}) <= MaxMarkers
        /\ InitWith(x)

SpecLong == InitLong /\ [][HookCommit]_vars /\ WF_vars(HookCommit)

(***************************************************************************)
(* Vocabulary of the properties.                                           *)
(***************************************************************************)
IsOpener(ev, r) == ev[r].Fold.valid /\ ~ev[r].Fold.side

IsCloser(ev, r) == ev[r].Fold.valid /\ ev[r].Fold.side

\* an entry was parsed on the line and its marker is not valid
IsInvalidMarker(ev, r) == ev[r].Fold.extraExists /\ ~ev[r].Fold.valid

\* the valid folds: <<row of the opener, row of the closer>>
ValidFolds(ev) ==
    {f \in (1..Len(ev)) \X (1..Len(ev)) :
        /\ f[1] < f[2]
        /\ IsOpener(ev, f[1])
        /\ IsCloser(ev, f[2])
        /\ ev[f[1]].Fold.id = ev[f[2]].Fold.id}

Disjoint(a, b) == a[2] < b[1] \/ b[2] < a[1]

StrictlyInside(a, b) == b[1] < a[1] /\ a[2] < b[2]

\* the two ranges meet and neither holds the other
PartialOverlap(a, b) ==
    LET A == a[1]..a[2]
        B == b[1]..b[2]
    IN  A \cap B # {} /\ ~(A \subseteq B) /\ ~(B \subseteq A)

\* the row of the line a pointer refers to
RowOf(ev, uid) == CHOOSE r \in 1..Len(ev) : ev[r].uid = uid

\* the rows reached from row r by following parent, r excluded
RECURSIVE Ancestors(_, _)
Ancestors(ev, r) ==
    IF ev[r].Fold.parent = nullptr THEN {}
    ELSE LET p == RowOf(ev, ev[r].Fold.parent)
         IN  {p} \cup Ancestors(ev, p)

\* the last step was a commit that ran the pre-commit hook's cycle
LastWasCycle == lastOp.op = "Commit" /\ HookRuns(lastOp.type)

(***************************************************************************)
(* C1  After Repair the valid markers form well-nested folds: every valid  *)
(* opener has exactly one valid closer with its id at a later row, every   *)
(* valid closer exactly one valid opener with its id at an earlier row,    *)
(* and two valid folds are disjoint or one lies strictly inside the other. *)
(***************************************************************************)
C1_WellNested ==
    cycles >= 1 =>
        /\ \A o \in Rows : IsOpener(Events, o) =>
               Cardinality({c \in Rows : /\ IsCloser(Events, c)
                                         /\ c > o
                                         /\ Events[c].Fold.id = Events[o].Fold.id}) = 1
        /\ \A c \in Rows : IsCloser(Events, c) =>
               Cardinality({o \in Rows : /\ IsOpener(Events, o)
                                         /\ o < c
                                         /\ Events[o].Fold.id = Events[c].Fold.id}) = 1
        /\ \A a \in ValidFolds(Events), b \in ValidFolds(Events) :
               a # b => \/ Disjoint(a, b)
                        \/ StrictlyInside(a, b)
                        \/ StrictlyInside(b, a)

\* crossing markers were loaded: opener, opener, closer, closer; the outer
\* pair is a valid fold and the crossing opener and closer are invalid
C1_Witness ==
    /\ cycles >= 1
    /\ <<1, 3>> \in ValidFolds(Events)
    /\ IsInvalidMarker(Events, 2) /\ ~Events[2].Fold.side
    /\ IsInvalidMarker(Events, 4) /\ Events[4].Fold.side

(***************************************************************************)
(* C4  After every Repair+Link cycle a line is visible iff none of its     *)
(* ancestors, reached by following parent, is collapsed.                   *)
(***************************************************************************)
C4_VisibleIffNoCollapsedAncestor ==
    cycles >= 1 =>
        \A r \in Rows :
            Events[r].Fold.visible <=>
                \A a \in Ancestors(Events, r) : ~Events[a].Fold.collapsed

\* an open fold holds a collapsed fold: the inner opener is visible, its
\* closer is hidden, the outer closer is visible
C4_Witness ==
    /\ cycles >= 1
    /\ <<1, 4>> \in ValidFolds(Events) /\ ~Events[1].Fold.collapsed
    /\ <<2, 3>> \in ValidFolds(Events) /\ Events[2].Fold.collapsed
    /\ Events[2].Fold.visible
    /\ ~Events[3].Fold.visible
    /\ Events[4].Fold.visible

(***************************************************************************)
(* C5  After every Repair+Link cycle the visibleRow of a visible line is   *)
(* the number of visible lines before it, so the values of the visible     *)
(* lines increase strictly in document order.                              *)
(***************************************************************************)
C5_VisibleRowCountsVisible ==
    cycles >= 1 =>
        /\ \A r \in Rows : Events[r].Fold.visible =>
               Events[r].Fold.visibleRow =
                   Cardinality({q \in 1..(r - 1) : Events[q].Fold.visible})
        /\ \A q \in Rows, r \in Rows :
               (q < r /\ Events[q].Fold.visible /\ Events[r].Fold.visible) =>
                   Events[q].Fold.visibleRow < Events[r].Fold.visibleRow

\* a collapsed fold hides lines and a visible line follows it
C5_Witness ==
    /\ cycles >= 1
    /\ \E r \in Rows :
           /\ Events[r].Fold.visible
           /\ Events[r].Fold.visibleRow > 0
           /\ \E q \in 1..(r - 1) : ~Events[q].Fold.visible

(***************************************************************************)
(* A step that runs the Repair+Link cycle again on what an earlier cycle   *)
(* left: a commit of the host that runs the hook, with no edit in between. *)
(***************************************************************************)
SecondCycleStep ==
    /\ cycles >= 1
    /\ cycles' = cycles + 1
    /\ lastOp'.op = "Commit"

LastWasAddFold == lastOp.op = "AddFold"

\* the step is a call of AddFold
AddFoldStep == lastOp'.op = "AddFold" /\ calls' = calls + 1

\* the ids of the fold entries stored on the lines, valid or not
IdsPresent(ev) ==
    {ReadLine(ev[r]).Fold.id : r \in {q \in 1..Len(ev) : ReadLine(ev[q]).Fold.extraExists}}

\* valid openers minus valid closers on the rows s..k
Balance(ev, s, k) ==
    Cardinality({r \in s..k : IsOpener(ev, r)})
        - Cardinality({r \in s..k : IsCloser(ev, r)})

\* a fold over [s, e] next to the valid folds: still well-nested, and no
\* line with two endpoints
KeepsWellNested(ev, s, e) ==
    /\ ~ev[s].Fold.valid
    /\ ~ev[e].Fold.valid
    /\ \A f \in ValidFolds(ev) :
           \/ Disjoint(<<s, e>>, f)
           \/ StrictlyInside(<<s, e>>, f)
           \/ StrictlyInside(f, <<s, e>>)

(***************************************************************************)
(* C6  AddFold(s, e, _) where [s, e] partially overlaps a valid fold, or   *)
(* where s or e is an endpoint of a valid fold, writes no annotation,      *)
(* leaves the valid folds and max_fold_id unchanged and issues no commit.  *)
(***************************************************************************)
C6_AddFoldRejected ==
    [][(/\ AddFoldStep
        /\ \/ \E f \in ValidFolds(Events) :
                  PartialOverlap(<<lastOp'.start, lastOp'.end>>, f)
           \/ Events[lastOp'.start].Fold.valid
           \/ Events[lastOp'.end].Fold.valid)
       => /\ ~lastOp'.committed
          /\ written' = {}
          /\ cycles' = cycles
          /\ max_fold_id' = max_fold_id
          /\ ValidFolds(Events') = ValidFolds(Events)
          /\ \A r \in Rows :
                 /\ Events'[r].extra = Events[r].extra
                 /\ Events'[r].Fold = Events[r].Fold]_vars

\* AddFold was called with a range that partially overlaps a valid fold and
\* whose ends are no endpoints of a valid fold (the call changed nothing, so
\* the fold is the one the call found)
C6_Witness ==
    /\ LastWasAddFold
    /\ ~lastOp.committed
    /\ ~Events[lastOp.start].Fold.valid
    /\ ~Events[lastOp.end].Fold.valid
    /\ \E f \in ValidFolds(Events) : PartialOverlap(<<lastOp.start, lastOp.end>>, f)

(***************************************************************************)
(* C7 (as stated)  Whenever AddFold(start, end, _) issues a commit, for    *)
(* any two lines including start.Row >= end.Row, a valid fold with its     *)
(* opener at start and its closer at end exists after the commit's Repair. *)
(***************************************************************************)
C7_CommitOnlyIfAdded ==
    (LastWasAddFold /\ lastOp.committed) =>
        <<lastOp.start, lastOp.end>> \in ValidFolds(Events)

(***************************************************************************)
(* C8  For start.Row < end.Row, CanAddFold(start, end) is true exactly     *)
(* when a fold over [start, end] keeps the valid folds well-nested with at *)
(* most one endpoint per line, which is exactly when neither line is a     *)
(* valid marker and the balance of valid openers minus valid closers over  *)
(* the rows from start never drops below 0 and is 0 at end.                *)
(***************************************************************************)
C8_CanAddFoldExact ==
    cycles >= 1 =>
        \A s \in Rows, e \in Rows :
            s < e =>
                /\ CanAddFold(Events, s, e) <=> KeepsWellNested(Events, s, e)
                /\ CanAddFold(Events, s, e) <=>
                       /\ ~Events[s].Fold.valid
                       /\ ~Events[e].Fold.valid
                       /\ \A k \in s..e : Balance(Events, s, k) >= 0
                       /\ Balance(Events, s, e) = 0

\* AddFold(start, end, _) with start.Row < end.Row was accepted around a
\* valid fold, which now lies strictly inside the new fold
C8_Witness ==
    /\ LastWasAddFold
    /\ lastOp.committed
    /\ lastOp.start < lastOp.end
    /\ <<lastOp.start, lastOp.end>> \in ValidFolds(Events)
    /\ \E f \in ValidFolds(Events) : StrictlyInside(f, <<lastOp.start, lastOp.end>>)

(***************************************************************************)
(* C9  The ids taken from ++max_fold_id in one step (by RawAddFold, then   *)
(* by the remapping of FixFolds) differ from the id of every fold entry    *)
(* stored on any line before the step, valid or not, and from each other.  *)
(***************************************************************************)
C9_FreshIds ==
    [][\A k \in 1..Len(minted') :
           /\ minted'[k] \notin IdsPresent(Events)
           /\ \A j \in 1..(k - 1) : minted'[j] # minted'[k]]_vars

\* AddFold wrote an id into a document that holds other fold entries, and
\* the Repair of its commit gave a marker a new id in the same scan
C9_Witness ==
    /\ LastWasAddFold
    /\ lastOp.committed
    /\ Len(minted) >= 2
    /\ \E r \in Rows \ {lastOp.start, lastOp.end} : Events[r].Fold.extraExists

(***************************************************************************)
(* C10 (as stated)  A successful AddFold(start, end, collapsed) creates a  *)
(* fold whose collapsed state is the collapsed argument, on the opener and *)
(* on the closer, as reported and as stored.                               *)
(***************************************************************************)
C10_CollapsedAsAsked ==
    (LastWasAddFold /\ lastOp.committed /\ lastOp.start < lastOp.end) =>
        /\ Events[lastOp.start].Fold.collapsed = lastOp.collapsed
        /\ Events[lastOp.end].Fold.collapsed = lastOp.collapsed
        /\ ReadLine(Events[lastOp.start]).Fold.collapsed = lastOp.collapsed
        /\ ReadLine(Events[lastOp.end]).Fold.collapsed = lastOp.collapsed

(***************************************************************************)
(* C11  When CanAddFold(start, end) holds with start.Row < end.Row, after  *)
(* AddFold(start, end, _) and its commit start is a valid opener and end a *)
(* valid closer of one fold with an id no stored annotation had, and every *)
(* fold valid before the call is valid still, with the same endpoints, the *)
(* same id and the same collapsed state.                                   *)
(***************************************************************************)
C11_AddFoldKeepsFolds ==
    [][(AddFoldStep /\ lastOp'.committed /\ lastOp'.start < lastOp'.end) =>
          /\ <<lastOp'.start, lastOp'.end>> \in ValidFolds(Events')
          /\ Events'[lastOp'.start].Fold.id \notin IdsPresent(Events)
          /\ \A f \in ValidFolds(Events) :
                 /\ f \in ValidFolds(Events')
                 /\ \A r \in {f[1], f[2]} :
                        /\ Events'[r].Fold.id = Events[r].Fold.id
                        /\ Events'[r].Fold.collapsed = Events[r].Fold.collapsed
                        /\ Events'[r].extra = Events[r].extra]_vars

\* an AddFold with start before end committed next to a fold that was valid
C11_Witness ==
    /\ LastWasAddFold
    /\ lastOp.committed
    /\ lastOp.start < lastOp.end
    /\ \E f \in ValidFolds(Events) : f # <<lastOp.start, lastOp.end>>

(***************************************************************************)
(* C12  A marker that is found invalid in every cycle keeps its stored     *)
(* annotation through its first 100 invalidations (not valid, annotation   *)
(* present) and has the annotation deleted from storage in the cycle of    *)
(* its 101st invalidation; a marker that is invalid is cleaned up          *)
(* eventually.                                                             *)
(***************************************************************************)
C12_DeletedAtInvalidation101 ==
    /\ [][\A r \in Rows :
             Events'[r].Fold.invalidCount = Events[r].Fold.invalidCount + 1 =>
                 /\ ~Events'[r].Fold.valid
                 /\ IF Events'[r].Fold.invalidCount <= InvalidThreshold
                    THEN /\ Events'[r].Fold.extraExists
                         /\ Events'[r].extra # <<>>
                    ELSE /\ ~Events'[r].Fold.extraExists
                         /\ Events'[r].extra = <<>>
                         /\ Events[r].extra # <<>>]_vars
    /\ <>[](\A r \in Rows : ~IsInvalidMarker(Events, r))

\* a marker was invalidated 101 times and its annotation is gone
C12_Witness ==
    \E r \in Rows :
        /\ Events[r].Fold.invalidCount = InvalidThreshold + 1
        /\ Events[r].extra = <<>>
        /\ LastWasCycle

(***************************************************************************)
(* SpecEdit: the host cuts lines out of the document and pastes the line   *)
(* cut last, each followed by its commit (COMMIT_DIAG_ADDREM), and commits *)
(* in between.  The pasted line is a new AssDialogue with the extradata    *)
(* entry of the line that was cut.                                         *)
(*                                                                         *)
(* clipboard is <<>> or a record: extra (the entry of the cut line) and,   *)
(* for the properties, fold (the line was an endpoint of a valid fold that *)
(* is split since), id, side, collapsed of the line, mate (uid of the other  *)
(* endpoint), mateExtra (its entry when the line was cut) and age (the     *)
(* cycles run since, the one of the cut included, counted up to            *)
(* InvalidThreshold + 1).                                                  *)
(***************************************************************************)
\* Events.erase(line)
RemoveAt(ev, r) ==
    [q \in 1..(Len(ev) - 1) |-> IF q < r THEN ev[q] ELSE ev[q + 1]]

\* Events.insert(pos, line)
InsertAt(ev, pos, line) ==
    [q \in 1..(Len(ev) + 1) |->
        IF q < pos THEN ev[q] ELSE IF q = pos THEN line ELSE ev[q - 1]]

\* the largest invalidCount of the lines
MaxCount(ev) ==
    CHOOSE m \in {0} \cup {ev[r].Fold.invalidCount : r \in 1..Len(ev)} :
        \A r \in 1..Len(ev) : ev[r].Fold.invalidCount <= m

EditTime ==
    \/ MaxCount(Events) <= EditWindow
    \/ MaxCount(Events) >= InvalidThreshold - EditWindow

\* the clipboard after row r was cut
CutRecord(ev, r) ==
    Bind({f \in ValidFolds(ev) : r \in {f[1], f[2]}}, LAMBDA fs :
        IF fs = {}
        THEN [extra |-> ev[r].extra, fold |-> FALSE, id |-> 0, side |-> FALSE,
              collapsed |-> FALSE, mate |-> 0, mateExtra |-> <<>>, age |-> 0]
        ELSE Bind(CHOOSE q \in 1..Len(ev) : \E f \in fs : q \in {f[1], f[2]} \ {r},
                  LAMBDA q :
                      [extra |-> ev[r].extra, fold |-> TRUE,
                       id |-> ev[r].Fold.id, side |-> ev[r].Fold.side,
                       collapsed |-> ev[r].Fold.collapsed,
                       mate |-> ev[q].uid, mateExtra |-> ev[q].extra,
                       age |-> 1]))

\* the host cuts the line at row r and commits
CutLine(r) ==
    /\ cycles >= 1
    /\ calls < MaxEdits
    /\ EditTime
    /\ Len(Events) > 1
    /\ calls' = calls + 1
    /\ clipboard' = CutRecord(Events, r)
    /\ \E ev \in {RemoveAt(Events, r)} :
           FixFoldsPreCommit(COMMIT_DIAG_ADDREM, ev, max_fold_id, {}, <<>>)
    /\ lastOp' = Op("CutLine", COMMIT_DIAG_ADDREM, r, 0, FALSE, TRUE)

\* the host pastes the line cut last before row pos and commits
PasteLine(pos) ==
    /\ cycles >= 1
    /\ calls < MaxEdits
    /\ EditTime
    /\ clipboard # <<>>
    /\ calls' = calls + 1
    /\ clipboard' = [clipboard EXCEPT !.fold = FALSE]
    /\ \E ev \in {InsertAt(Events, pos,
                             [uid |-> NumLines + calls + 1,
                              extra |-> clipboard.extra,
                              Fold |-> DefaultFoldInfo, streak |-> 0])} :
           FixFoldsPreCommit(COMMIT_DIAG_ADDREM, ev, max_fold_id, {}, <<>>)
    /\ lastOp' = Op("PasteLine", COMMIT_DIAG_ADDREM, pos, 0, FALSE, TRUE)

\* a commit of the host that runs the hook, before the last edit
IdleCommit ==
    /\ calls < MaxEdits
    /\ \E type \in {IF cycles = 0 THEN COMMIT_NEW ELSE COMMIT_DIAG_ADDREM} :
           /\ FixFoldsPreCommit(type, Events, max_fold_id, {}, <<>>)
           /\ lastOp' = Op("Commit", type, 0, 0, FALSE, TRUE)
    /\ clipboard' = IF clipboard # <<>> /\ clipboard.fold
                    THEN [clipboard EXCEPT
                             !.age = IF @ <= InvalidThreshold THEN @ + 1 ELSE @]
                    ELSE clipboard
    /\ UNCHANGED calls

\* the loaded file: at most EditMarkers entries, all with the id 1
InitEdit ==
    \E x \in [Rows -> {<<>>} \cup {<<FormatFold(s, c, 1)>> :
                                      s \in BOOLEAN, c \in BOOLEAN}] :
        /\ Cardinality({r \in Rows : x[r] # <<>>}) <= EditMarkers
        /\ InitWith(x)

NextEdit ==
    \/ IdleCommit
    \/ \E r \in 1..Len(Events) : CutLine(r)
    \/ \E pos \in 1..(Len(Events) + 1) : PasteLine(pos)

SpecEdit == InitEdit /\ [][NextEdit]_vars

(***************************************************************************)
(* Vocabulary of the properties of SpecEdit.                               *)
(***************************************************************************)
\* the rows of the lines with the uid u
RowsOf(ev, u) == {q \in 1..Len(ev) : ev[q].uid = u}

\* the last cycle invalidated the marker of row r and deleted its entry
DeletedByCycle(r) ==
    /\ r \in written
    /\ Events[r].extra = <<>>
    /\ Events[r].streak >= 1

\* a fold is split: one endpoint is on the clipboard, for at most 100 cycles
SplitFold(cb) == cb # <<>> /\ cb.fold /\ cb.age <= InvalidThreshold

\* pasting before row pos of ev puts the cut endpoint at a well-nested
\* position for the endpoint left at row m: the opener comes first and the
\* valid markers between the two are balanced
WellNestedPaste(ev, cb, m, pos) ==
    LET s == IF cb.side THEN m + 1 ELSE pos
        e == IF cb.side THEN pos - 1 ELSE m - 1
    IN  /\ IF cb.side THEN pos > m ELSE pos <= m
        /\ \A k \in s..e : Balance(ev, s, k) >= 0
        /\ Balance(ev, s, e) = 0

(***************************************************************************)
(* C13 (as stated)  A marker's annotation is deleted only after more than  *)
(* 100 consecutive cycles in which the marker was invalid: a cycle in      *)
(* which the marker is valid restarts the count, earlier periods of        *)
(* invalidity do not add up.                                               *)
(***************************************************************************)
C13_DeletedOnlyAfterStreak ==
    \A r \in 1..Len(Events) :
        DeletedByCycle(r) => Events[r].streak > InvalidThreshold

(***************************************************************************)
(* C14 (as stated)  When an endpoint of a valid fold is removed and a line *)
(* with its annotation is inserted again at a well-nested position within  *)
(* 100 cycles, the annotation of the endpoint left stays as it is in       *)
(* storage during the split, and the first Repair after the insertion      *)
(* makes the fold valid again with its id and collapsed state.             *)
(***************************************************************************)
C14_SplitFoldComesBack ==
    [][/\ (lastOp'.op \in {"CutLine", "Commit"} /\ SplitFold(clipboard')) =>
              \A q \in RowsOf(Events', clipboard'.mate) :
                  Events'[q].extra = clipboard'.mateExtra
       /\ (lastOp'.op = "PasteLine" /\ SplitFold(clipboard)) =>
              \A m \in RowsOf(Events, clipboard.mate) :
                  WellNestedPaste(Events, clipboard, m, lastOp'.start) =>
                      \A q \in RowsOf(Events', clipboard.mate) :
                          LET p == lastOp'.start
                          IN  /\ <<IF p < q THEN p ELSE q, IF p < q THEN q ELSE p>>
                                     \in ValidFolds(Events')
                              /\ Events'[p].Fold.id = clipboard.id
                              /\ Events'[q].Fold.id = clipboard.id
                              /\ Events'[p].Fold.collapsed = clipboard.collapsed
                              /\ Events'[q].Fold.collapsed = clipboard.collapsed]_vars

(***************************************************************************)
(* SpecWide: a file of WideLines lines whose entries all carry the id 1 is *)
(* loaded and the host commits.                                            *)
(***************************************************************************)
InitWide ==
    \E x \in [1..WideLines -> {<<>>} \cup {<<FormatFold(s, c, 1)>> :
                                             s \in BOOLEAN, c \in BOOLEAN}] :
        InitWith(x)

SpecWide == InitWide /\ [][NextRepair]_vars

\* the rows of ev with an entry
Annotated(ev) == {r \in 1..Len(ev) : ev[r].extra # <<>>}

\* r is the Rank(ev, r)-th row with an entry
Rank(ev, r) == Cardinality({q \in Annotated(ev) : q <= r})

\* the entries of ev are two or more opener/closer pairs, one after the
\* other, that all carry one id
SameIdPairs(ev) ==
    /\ Cardinality(Annotated(ev)) >= 4
    /\ Cardinality(Annotated(ev)) % 2 = 0
    /\ \A r \in Annotated(ev) :
           /\ ReadLine(ev[r]).Fold.extraExists
           /\ ReadLine(ev[r]).Fold.side = (Rank(ev, r) % 2 = 0)
           /\ \A q \in Annotated(ev) :
                  ReadLine(ev[q]).Fold.id = ReadLine(ev[r]).Fold.id

(***************************************************************************)
(* C15  When two or more disjoint opener/closer pairs carry the same id,   *)
(* Repair keeps the first pair valid under that id, gives the opener and   *)
(* the closer of each later pair one common fresh id, rewrites their       *)
(* stored annotations with it and leaves every pair a valid fold; the      *)
(* pairs end up with ids that differ from pair to pair.                    *)
(***************************************************************************)
C15_SameIdPairsGetFreshIds ==
    [][(cycles = 0 /\ cycles' = 1 /\ SameIdPairs(Events)) =>
          \A r \in Annotated(Events) :
              Rank(Events, r) % 2 = 1 =>
                  LET c == CHOOSE q \in Annotated(Events) :
                               Rank(Events, q) = Rank(Events, r) + 1
                      old == ReadLine(Events[r]).Fold.id
                      new == Events'[r].Fold.id
                  IN  /\ <<r, c>> \in ValidFolds(Events')
                      /\ ReadLine(Events'[r]).Fold.id = new
                      /\ ReadLine(Events'[c]).Fold.id = new
                      /\ IF Rank(Events, r) = 1
                         THEN new = old
                         ELSE /\ new # old
                              /\ new \notin IdsPresent(Events)
                              /\ {r, c} \subseteq written'
                      /\ \A q \in Annotated(Events) \ {r, c} :
                             Events'[q].Fold.id # new]_vars

\* three pairs with one id were loaded: three valid folds, two new ids
C15_Witness ==
    /\ cycles = 1
    /\ Cardinality(ValidFolds(Events)) = 3
    /\ Len(minted) = 2
    /\ \A f \in ValidFolds(Events) : f[2] = f[1] + 1

(***************************************************************************)
(* SpecCross: a file of CrossLines lines with entries of folds that are    *)
(* not collapsed, ids 1..MaxId, is loaded and the host commits.            *)
(***************************************************************************)
InitCross ==
    \E x \in [1..CrossLines -> {<<>>} \cup {<<FormatFold(s, FALSE, i)>> :
                                              s \in BOOLEAN, i \in 1..MaxId}] :
        InitWith(x)

SpecCross == InitCross /\ [][NextRepair]_vars

\* the entry stored on row r of ev, as ReadFromExtradata parses it
Raw(ev, r) == ReadLine(ev[r]).Fold

\* row r of ev stores an opener (side FALSE) or a closer (side TRUE) of id
StoresMarker(ev, r, side, id) ==
    Raw(ev, r).extraExists /\ Raw(ev, r).side = side /\ Raw(ev, r).id = id

ActionClearKeepsEntry(act, line) ==
    CASE act = "Clear" -> [line EXCEPT !.Fold.valid = FALSE]
      [] act = "Open" -> [line EXCEPT !.Fold.collapsed = FALSE]
      [] act = "Close" -> [line EXCEPT !.Fold.collapsed = TRUE]
      [] act = "Toggle" -> [line EXCEPT !.Fold.collapsed = ~@]
      [] act = "Query" -> line

\* action(line)
Action(act, line) ==
    CASE act = "Clear" -> [line EXCEPT !.Fold.extraExists = FALSE,
                                       !.Fold.valid = FALSE]
      [] act = "Open" -> [line EXCEPT !.Fold.collapsed = FALSE]
      [] act = "Close" -> [line EXCEPT !.Fold.collapsed = TRUE]
      [] act = "Toggle" -> [line EXCEPT !.Fold.collapsed = ~@]
      [] act = "Query" -> line

\* DoForAllFolds that acts on the lines that start a valid fold only
DoForAllFoldsStarters(ev, act) ==
    [ev |-> [r \in 1..Len(ev) |->
                IF ev[r].Fold.valid /\ ~ev[r].Fold.side
                THEN UpdateLineExtradata(Action(act, ev[r])) ELSE ev[r]],
     written |-> {r \in 1..Len(ev) : ev[r].Fold.valid /\ ~ev[r].Fold.side}]

\* returns the lines and the rows UpdateLineExtradata was called for
DoForAllFolds(ev, act) ==
    [ev |-> [r \in 1..Len(ev) |->
                IF ev[r].Fold.valid
                THEN UpdateLineExtradata(Action(act, ev[r])) ELSE ev[r]],
     written |-> {r \in 1..Len(ev) : ev[r].Fold.valid}]

\* FoldLineAt with the test for an opener left out
FoldLineAtOuter(ev, l) ==
    IF ev[l].Fold.parent # nullptr
    THEN RowOf(ev, ev[l].Fold.parent)
    ELSE l

\* the line DoForFoldsAt acts on for the given line at row l
FoldLineAt(ev, l) ==
    IF /\ ev[l].Fold.parent # nullptr
       /\ ~(ev[l].Fold.valid /\ ~ev[l].Fold.side)
    THEN RowOf(ev, ev[l].Fold.parent)
    ELSE l

\* the body of the loop of DoForFoldsAt for the given line at row l;
\* st: ev (the lines) and visited (the rows acted on)
FoldsAtStep(st, l, act) ==
    Bind(FoldLineAt(st.ev, l), LAMBDA t :
        IF t \in st.visited THEN st
        ELSE [ev |-> [st.ev EXCEPT ![t] = UpdateLineExtradata(Action(act, @))],
              visited |-> st.visited \cup {t}])

RECURSIVE FoldsAtScan(_, _, _, _)
FoldsAtScan(st, lines, i, act) ==
    IF i > Len(lines) THEN st
    ELSE Bind(FoldsAtStep(st, lines[i], act),
              LAMBDA s : FoldsAtScan(s, lines, i + 1, act))

\* returns the lines and the rows UpdateLineExtradata was called for
DoForFoldsAt(ev, lines, act) ==
    Bind(FoldsAtScan([ev |-> ev, visited |-> {}], lines, 1, act),
         LAMBDA s : [ev |-> s.ev, written |-> s.visited])

\* the record of a call with a vector of lines
OpAt(op, type, lines, committed) ==
    [op |-> op, type |-> type, start |-> 0, end |-> 0, collapsed |-> FALSE,
     committed |-> committed, lines |-> lines]

\* DoForAllFolds(action) and Commit(_, COMMIT_FOLD)
AllFoldsOp(op, act) ==
    /\ cycles >= 1
    /\ calls < MaxCalls
    /\ calls' = calls + 1
    /\ \E d \in {DoForAllFolds(Events, act)} :
           FixFoldsPreCommit(COMMIT_FOLD, d.ev, max_fold_id, d.written, <<>>)
    /\ lastOp' = Op(op, COMMIT_FOLD, 0, 0, FALSE, TRUE)
    /\ UNCHANGED clipboard

\* DoForFoldsAt(lines, action) and Commit(_, COMMIT_FOLD)
FoldsAtOp(op, act, lines) ==
    /\ cycles >= 1
    /\ calls < MaxCalls
    /\ calls' = calls + 1
    /\ \E d \in {DoForFoldsAt(Events, lines, act)} :
           FixFoldsPreCommit(COMMIT_FOLD, d.ev, max_fold_id, d.written, <<>>)
    /\ lastOp' = OpAt(op, COMMIT_FOLD, lines, TRUE)
    /\ UNCHANGED clipboard

\* a query: the lines d.ev it leaves, no commit
QueryOp(op, d) ==
    /\ cycles >= 1
    /\ calls < MaxCalls
    /\ calls' = calls + 1
    /\ Events' = d.ev
    /\ written' = d.written
    /\ minted' = <<>>
    /\ lastOp' = op
    /\ UNCHANGED <<max_fold_id, maxdepth, cycles, linkUB, clipboard>>

ClearAllFolds == AllFoldsOp("ClearAllFolds", "Clear")

OpenAllFolds == AllFoldsOp("OpenAllFolds", "Open")

CloseAllFolds == AllFoldsOp("CloseAllFolds", "Close")

HasFolds ==
    QueryOp(Op("HasFolds", {}, 0, 0, FALSE, FALSE), DoForAllFolds(Events, "Query"))

ClearFoldsAt(lines) == FoldsAtOp("ClearFoldsAt", "Clear", lines)

OpenFoldsAt(lines) == FoldsAtOp("OpenFoldsAt", "Open", lines)

CloseFoldsAt(lines) == FoldsAtOp("CloseFoldsAt", "Close", lines)

ToggleFoldsAt(lines) == FoldsAtOp("ToggleFoldsAt", "Toggle", lines)

AreFoldsAt(lines) ==
    QueryOp(OpAt("AreFoldsAt", {}, lines, FALSE), DoForFoldsAt(Events, lines, "Query"))

(***************************************************************************)
(* SpecOps: a file is loaded (a COMMIT_NEW commit) and one operation of    *)
(* the controller is called.  The entries of the file: openers with any collapsed flag,      *)
(* closers "1;0;id", and the opener "0;2;1", whose collapsed field is      *)
(* another nonzero number.                                                 *)
(***************************************************************************)
OpsExtras ==
    {<<>>} \cup {<<FormatFold(FALSE, c, i)>> : c \in BOOLEAN, i \in 1..MaxId}
           \cup {<<FormatFold(TRUE, FALSE, i)>> : i \in 1..MaxId}
           \cup {<<IntToStr(0) \o <<";">> \o IntToStr(2) \o <<";">> \o IntToStr(1)>>}

InitOps == \E x \in [Rows -> OpsExtras] : InitWith(x)

\* the vectors of lines given to the operations
GivenLines ==
    {lines \in UNION {[1..n -> Rows] : n \in 1..MaxGiven} :
        \A i \in 1..(Len(lines) - 1) : lines[i] <= lines[i + 1]}

NextOps ==
    \/ cycles = 0 /\ Commit(COMMIT_NEW)
    \/ \E start \in Rows, end \in Rows, collapsed \in BOOLEAN :
           AddFold(start, end, collapsed)
    \/ ClearAllFolds
    \/ OpenAllFolds
    \/ CloseAllFolds
    \/ HasFolds
    \/ \E lines \in GivenLines : ClearFoldsAt(lines)
    \/ \E lines \in GivenLines : OpenFoldsAt(lines)
    \/ \E lines \in GivenLines : CloseFoldsAt(lines)
    \/ \E lines \in GivenLines : ToggleFoldsAt(lines)
    \/ \E lines \in GivenLines : AreFoldsAt(lines)

SpecOps == InitOps /\ [][NextOps]_vars

\* the valid folds of ev that hold row l, endpoints included
FoldsHolding(ev, l) == {f \in ValidFolds(ev) : f[1] <= l /\ l <= f[2]}

\* the innermost valid folds of the given lines
InnermostFolds(ev, lines) ==
    {f \in ValidFolds(ev) :
        \E i \in 1..Len(lines) :
            /\ f \in FoldsHolding(ev, lines[i])
            /\ \A g \in FoldsHolding(ev, lines[i]) : g[1] <= f[1]}

\* the collapsed state an operation gives a fold whose state was c
Effect(op, c) ==
    CASE op = "OpenFoldsAt" -> FALSE
      [] op = "CloseFoldsAt" -> TRUE
      [] op = "ToggleFoldsAt" -> ~c

\* the step is a call of op with a vector of lines
FoldsAtCall(ops) == lastOp'.op \in ops /\ calls' = calls + 1

(***************************************************************************)
(* C17  OpenFoldsAt, CloseFoldsAt and ToggleFoldsAt, called after a commit *)
(* with a vector of lines, change the collapsed state of the innermost     *)
(* valid fold of each given line (the fold itself for its opener and its   *)
(* closer, the closest enclosing fold otherwise), once per fold however    *)
(* many of the given lines lie in it; after the commit every fold is as    *)
(* valid as before and has its id, and every other fold has its collapsed  *)
(* state.                                                                  *)
(***************************************************************************)
C17_FoldsAtChangeInnermost ==
    [][FoldsAtCall({"OpenFoldsAt", "CloseFoldsAt", "ToggleFoldsAt"}) =>
          /\ ValidFolds(Events') = ValidFolds(Events)
          /\ \A f \in ValidFolds(Events) :
                /\ Events'[f[1]].Fold.id = Events[f[1]].Fold.id
                /\ Events'[f[2]].Fold.id = Events[f[2]].Fold.id
                /\ Events'[f[1]].Fold.collapsed =
                      IF f \in InnermostFolds(Events, lastOp'.lines)
                      THEN Effect(lastOp'.op, Events[f[1]].Fold.collapsed)
                      ELSE Events[f[1]].Fold.collapsed
                /\ Events'[f[2]].Fold.collapsed = Events'[f[1]].Fold.collapsed
                /\ ReadLine(Events'[f[1]]).Fold.collapsed
                      = Events'[f[1]].Fold.collapsed]_vars

\* ToggleFoldsAt was called with an inner line and the closer of the inner
\* of two nested folds: the inner fold is collapsed, the outer one is not
C17_Witness ==
    /\ lastOp.op = "ToggleFoldsAt"
    /\ Len(lastOp.lines) = 2
    /\ lastOp.lines[1] < lastOp.lines[2]
    /\ \E f \in ValidFolds(Events), g \in ValidFolds(Events) :
          /\ StrictlyInside(f, g)
          /\ lastOp.lines[2] = f[2]
          /\ f[1] <= lastOp.lines[1]
          /\ Events[f[1]].Fold.collapsed
          /\ ~Events[g[1]].Fold.collapsed

\* the answers of hasFold(), isFolded() and isEnd() on a line
Answers(line) == <<line.Fold.valid, line.Fold.collapsed, line.Fold.side>>

\* no given line lies in a valid fold of ev or is an endpoint of one
InNoFold(ev, lines) == \A i \in 1..Len(lines) : FoldsHolding(ev, lines[i]) = {}

(***************************************************************************)
(* C18  ClearFoldsAt, OpenFoldsAt, CloseFoldsAt and ToggleFoldsAt are a    *)
(* no-op for a given line that is neither inside nor an endpoint of a      *)
(* valid fold: called with such lines only, they change no line's stored   *)
(* annotation and no line's hasFold, isFolded or isEnd answer.             *)
(***************************************************************************)
C18_NoFoldNoOp ==
    [][(/\ FoldsAtCall({"ClearFoldsAt", "OpenFoldsAt", "CloseFoldsAt",
                        "ToggleFoldsAt"})
        /\ InNoFold(Events, lastOp'.lines)) =>
          \A r \in Rows :
              /\ Events'[r].extra = Events[r].extra
              /\ Answers(Events'[r]) = Answers(Events[r])]_vars

\* the step is a call of HasFolds or AreFoldsAt
QueryCall == lastOp'.op \in {"HasFolds", "AreFoldsAt"} /\ calls' = calls + 1

(***************************************************************************)
(* C19  HasFolds and AreFoldsAt are pure queries: whatever the entries of  *)
(* the lines, they issue no commit and leave the stored annotation and     *)
(* every field of the fold descriptor of every line as it was before the   *)
(* call.                                                                   *)
(***************************************************************************)
C19_QueriesArePure ==
    [][QueryCall =>
          /\ ~lastOp'.committed
          /\ cycles' = cycles
          /\ \A r \in Rows :
                /\ Events'[r].extra = Events[r].extra
                /\ Events'[r].Fold = Events[r].Fold]_vars

\* the operations that change folds
FoldOps ==
    {"AddFold", "ClearAllFolds", "OpenAllFolds", "CloseAllFolds",
     "ClearFoldsAt", "OpenFoldsAt", "CloseFoldsAt", "ToggleFoldsAt"}

\* the step is a call of one of FoldOps, for AddFold a successful one
FoldOpCall ==
    /\ lastOp'.op \in FoldOps
    /\ calls' = calls + 1
    /\ lastOp'.op = "AddFold" => lastOp'.committed

(***************************************************************************)
(* C20  Each call of ClearAllFolds, OpenAllFolds, CloseAllFolds,           *)
(* ClearFoldsAt, OpenFoldsAt, CloseFoldsAt and ToggleFoldsAt and each      *)
(* successful AddFold issues one commit, of type COMMIT_FOLD; the          *)
(* pre-commit hook runs the Repair+Link cycle for it once, and the cycle   *)
(* issues no commit of its own (the count of cycles grows by exactly one). *)
(***************************************************************************)
C20_OneFoldCommitOneCycle ==
    [][FoldOpCall =>
          /\ lastOp'.committed
          /\ lastOp'.type = COMMIT_FOLD
          /\ HookRuns(lastOp'.type)
          /\ cycles < MaxCycles => cycles' = cycles + 1]_vars

\* ClearFoldsAt was called and committed; the cycle of that commit was the
\* second one and found the closer of the cleared fold without opener
C20_Witness ==
    /\ lastOp.op = "ClearFoldsAt"
    /\ lastOp.committed
    /\ lastOp.type = COMMIT_FOLD
    /\ cycles = 2
    /\ Events[lastOp.lines[1]].extra = <<>>
    /\ \E r \in Rows :
          /\ IsInvalidMarker(Events, r)
          /\ Events[r].Fold.side
          /\ Events[r].Fold.invalidCount = 1

(***************************************************************************)
(* SpecHook: a file with up to MaxMarkers entries is loaded and the host   *)
(* commits with any mask of the flags DIAG_ADDREM, DIAG_TEXT, ORDER and    *)
(* FOLD.                                                                   *)
(***************************************************************************)
AllCommitTypes ==
    SUBSET (COMMIT_DIAG_ADDREM \cup COMMIT_DIAG_TEXT \cup COMMIT_ORDER
                \cup COMMIT_FOLD)

NextHook == \E type \in AllCommitTypes : Commit(type)

SpecHook == Init /\ [][NextHook]_vars

\* the step is a commit of the host
CommitStep == lastOp'.op = "Commit"

\* the fields a cycle computes and the stored entries are unchanged
FoldStateUnchanged ==
    /\ \A r \in Rows : Events'[r].extra = Events[r].extra
                        /\ Events'[r].Fold = Events[r].Fold
    /\ maxdepth' = maxdepth
    /\ max_fold_id' = max_fold_id
    /\ cycles' = cycles

(***************************************************************************)
(* C21  The pre-commit hook runs the whole Repair+Link cycle when the type *)
(* of the commit contains COMMIT_FOLD, COMMIT_DIAG_ADDREM or COMMIT_ORDER  *)
(* or equals COMMIT_NEW; for every other type it leaves the fold           *)
(* descriptors, the derived fields, the stored annotations, maxdepth and   *)
(* max_fold_id as they were.                                               *)
(***************************************************************************)
C21_HookRunsByType ==
    [][CommitStep =>
          IF \/ "FOLD" \in lastOp'.type
             \/ "DIAG_ADDREM" \in lastOp'.type
             \/ "ORDER" \in lastOp'.type
             \/ lastOp'.type = {}
          THEN \E u \in {UpdateFoldInfo(Events, {}, <<>>)} :
                   /\ cycles' = cycles + 1
                   /\ \A r \in Rows : /\ Events'[r].Fold = u.ev[r].Fold
                                       /\ Events'[r].extra = u.ev[r].extra
                   /\ maxdepth' = u.maxdepth
                   /\ max_fold_id' = u.max_fold_id
          ELSE FoldStateUnchanged]_vars

\* a commit with the mask DIAG_TEXT alone came after the load: the stray
\* marker of the file was invalidated by the load's cycle only
C21_Witness ==
    /\ lastOp.op = "Commit"
    /\ lastOp.type = COMMIT_DIAG_TEXT
    /\ cycles = 1
    /\ \E r \in Rows : IsInvalidMarker(Events, r)
                        /\ Events[r].Fold.invalidCount = 1

InitCodec ==
    \E side \in BOOLEAN, collapsed \in BOOLEAN, id \in (0 - MaxCodecId)..MaxCodecId :
        /\ Events = <<[uid |-> 1, extra |-> <<>>, streak |-> 0,
                       Fold |-> [DefaultFoldInfo EXCEPT !.extraExists = TRUE,
                                                        !.valid = TRUE,
                                                        !.side = side,
                                                        !.collapsed = collapsed,
                                                        !.id = id]]>>
        /\ max_fold_id = 0
        /\ maxdepth = 0
        /\ cycles = 0
        /\ calls = 0
        /\ lastOp = Op("Init", {}, 0, 0, FALSE, FALSE)
        /\ written = {}
        /\ minted = <<>>
        /\ linkUB = FALSE
        /\ clipboard = <<>>

WriteEntry ==
    /\ lastOp.op = "Init"
    /\ Events' = [r \in 1..Len(Events) |-> UpdateLineExtradata(Events[r])]
    /\ written' = 1..Len(Events)
    /\ lastOp' = Op("WriteEntry", {}, 0, 0, FALSE, FALSE)
    /\ UNCHANGED <<max_fold_id, maxdepth, cycles, calls, minted, linkUB, clipboard>>

Reload ==
    /\ lastOp.op = "WriteEntry"
    /\ \E rd \in {ReadFromExtradata([r \in 1..Len(Events) |->
                        [Events[r] EXCEPT !.Fold = DefaultFoldInfo]])} :
           /\ Events' = rd.ev
           /\ max_fold_id' = rd.max_fold_id
    /\ written' = {}
    /\ lastOp' = Op("Reload", {}, 0, 0, FALSE, FALSE)
    /\ UNCHANGED <<maxdepth, cycles, calls, minted, linkUB, clipboard>>

NextCodec == WriteEntry \/ Reload

SpecCodec == InitCodec /\ [][NextCodec]_vars

(***************************************************************************)
(* C23  Round trip of the annotation codec: for every descriptor with a    *)
(* side, a collapsed flag and an integer id, reading back the string       *)
(* "side;collapsed;id" that UpdateLineExtradata writes for it gives a      *)
(* descriptor with the same side, collapsed and id, marked as present.     *)
(***************************************************************************)
C23_CodecRoundTrip ==
    [][lastOp'.op = "Reload" =>
          \A r \in 1..Len(Events) :
              /\ Events'[r].Fold.extraExists
              /\ Events'[r].Fold.side = Events[r].Fold.side
              /\ Events'[r].Fold.collapsed = Events[r].Fold.collapsed
              /\ Events'[r].Fold.id = Events[r].Fold.id]_vars

\* the entry of a collapsed closer with a negative id of two digits was
\* written and read back
C23_Witness ==
    /\ lastOp.op = "Reload"
    /\ Events[1].Fold.extraExists
    /\ Events[1].Fold.side
    /\ Events[1].Fold.collapsed
    /\ Events[1].Fold.id < -9
    /\ Len(Events[1].extra[1]) = 7

(***************************************************************************)
(* SpecMalformed: the lines of the loaded file have no entry, the entry of *)
(* an open fold's opener or closer, or an entry that is not three          *)
(* integers: "0;0;1;0" (four fields), "0;x;1" (a field that is no          *)
(* integer), "1;0" (two fields).                                           *)
(***************************************************************************)
MalformedExtras ==
    {<<FormatFold(FALSE, FALSE, 1) \o <<";", "0">>>>,
     <<<<"0", ";", "x", ";", "1">>>>,
     <<<<"1", ";", "0">>>>}

InitMalformed ==
    \E x \in [Rows -> {<<>>} \cup MalformedExtras
                          \cup {<<FormatFold(s, FALSE, i)>> :
                                    s \in BOOLEAN, i \in 1..MaxId}] :
        InitWith(x)

SpecMalformed == InitMalformed /\ [][NextRepair]_vars

\* the line has an entry that does not split into three fields that all
\* parse as integers
Malformed(line) ==
    /\ line.extra # <<>>
    /\ \/ Len(Split(line.extra[1])) # 3
       \/ \E i \in 1..Len(Split(line.extra[1])) : ~CanParse(Split(line.extra[1])[i])

\* the lines with the malformed entries taken away
WithoutMalformed(ev) ==
    [r \in 1..Len(ev) |-> IF Malformed(ev[r]) THEN DeleteExtradataValue(ev[r])
                           ELSE ev[r]]

\* the step is a commit whose hook ran the cycle
CycleStep == lastOp'.op = "Commit" /\ HookRuns(lastOp'.type)

(***************************************************************************)
(* C24  A line whose annotation does not split into exactly three fields   *)
(* at ';' or has a field that is no integer is treated as a line without   *)
(* fold: after a cycle hasFold is false on it, Repair has not invalidated  *)
(* it (invalidCount unchanged) nor rewritten its entry, and the descriptor *)
(* and the entry of every other line are what the cycle gives when the     *)
(* malformed entries are not there.                                        *)
(***************************************************************************)
C24_MalformedIsNoFold ==
    [][CycleStep =>
          \E u \in {UpdateFoldInfo(WithoutMalformed(Events), {}, <<>>)} :
              /\ ~u.ub
              /\ max_fold_id' = u.max_fold_id
              /\ maxdepth' = u.maxdepth
              /\ \A r \in Rows :
                    IF Malformed(Events[r])
                    THEN /\ ~Events'[r].Fold.valid
                         /\ ~Events'[r].Fold.extraExists
                         /\ Events'[r].Fold.invalidCount
                               = Events[r].Fold.invalidCount
                         /\ Events'[r].extra = Events[r].extra
                         /\ r \notin written'
                    ELSE /\ Events'[r].Fold = u.ev[r].Fold
                         /\ Events'[r].extra = u.ev[r].extra]_vars

\* a cycle ran on a file with a malformed entry between the opener and the
\* closer of a valid fold
C24_Witness ==
    /\ LastWasCycle
    /\ \E f \in ValidFolds(Events) :
          \E r \in (f[1] + 1)..(f[2] - 1) :
              /\ Malformed(Events[r])
              /\ Len(Split(Events[r].extra[1])) = 4
              /\ ~Events[r].Fold.valid

(***************************************************************************)
(* C25  After every Repair+Link cycle, out of all lines with the same      *)
(* visibleRow only the one with the lowest Row is shown: a visible line    *)
(* has no line before it with its visibleRow.                              *)
(***************************************************************************)
C25_LowestRowOfVisibleRowShown ==
    LastWasCycle =>
        \A r \in Rows :
            Events[r].Fold.visible =>
                \A q \in 1..(r - 1) :
                    Events[q].Fold.visibleRow # Events[r].Fold.visibleRow

\* the pointer to the first visible line after row r, nullptr if none
FirstVisibleAfter(ev, r) ==
    IF \E q \in (r + 1)..Len(ev) : ev[q].Fold.visible
    THEN ev[CHOOSE q \in (r + 1)..Len(ev) :
                /\ ev[q].Fold.visible
                /\ \A p \in (r + 1)..(q - 1) : ~ev[p].Fold.visible].uid
    ELSE nullptr

(***************************************************************************)
(* C26  After every Repair+Link cycle the nextVisible of a visible line is *)
(* the first visible line after it in document order, null when no later   *)
(* line is visible, and the nextVisible of a hidden line is null; the      *)
(* opener of a collapsed fold whose ancestors are all open points to the   *)
(* line after the closer of that fold (null when the closer is the last    *)
(* line).                                                                  *)
(***************************************************************************)
C26_NextVisibleChain ==
    cycles >= 1 =>
        /\ \A r \in Rows :
              Events[r].Fold.nextVisible =
                  IF Events[r].Fold.visible THEN FirstVisibleAfter(Events, r)
                  ELSE nullptr
        /\ \A f \in ValidFolds(Events) :
              (/\ Events[f[1]].Fold.collapsed
               /\ \A a \in Ancestors(Events, f[1]) : ~Events[a].Fold.collapsed) =>
                  Events[f[1]].Fold.nextVisible =
                      IF f[2] < Len(Events) THEN Events[f[2] + 1].uid ELSE nullptr

\* a collapsed fold inside an open one: its opener points past its closer
C26_Witness ==
    /\ cycles >= 1
    /\ \E f \in ValidFolds(Events), g \in ValidFolds(Events) :
          /\ StrictlyInside(f, g)
          /\ Events[f[1]].Fold.collapsed
          /\ ~Events[g[1]].Fold.collapsed
          /\ f[1] + 1 = f[2]
          /\ Events[f[1]].Fold.nextVisible = Events[f[2] + 1].uid
          /\ Events[f[2]].Fold.nextVisible = nullptr

(***************************************************************************)
(* C27  After every Repair cycle the opener and the closer of each valid   *)
(* fold have the same collapsed value and both stored annotations encode   *)
(* it; after a commit of the host it is the value the opener's annotation  *)
(* carried before the cycle.  So an open, close or toggle operation, which *)
(* changes the opener only, shows on the closer once its commit has run.   *)
(***************************************************************************)
C27_CloserFollowsOpener ==
    /\ [](cycles >= 1 =>
             \A f \in ValidFolds(Events) :
                 /\ Events[f[2]].Fold.collapsed = Events[f[1]].Fold.collapsed
                 /\ Raw(Events, f[1]).collapsed = Events[f[1]].Fold.collapsed
                 /\ Raw(Events, f[2]).collapsed = Events[f[1]].Fold.collapsed)
    /\ [][CycleStep =>
             \A f \in ValidFolds(Events') :
                 Events'[f[1]].Fold.collapsed = Raw(Events, f[1]).collapsed]_vars

\* CloseFoldsAt closed a fold that was open: the cycle of its commit wrote
\* the closer's entry
C27_Witness ==
    /\ lastOp.op = "CloseFoldsAt"
    /\ \E f \in ValidFolds(Events) :
          /\ lastOp.lines = <<f[1]>>
          /\ written = {f[1], f[2]}
          /\ Events[f[2]].Fold.collapsed
          /\ Events[f[2]].extra = <<FormatFold(TRUE, TRUE, Events[f[1]].Fold.id)>>

(***************************************************************************)
(* C28  Whenever Link runs on the output of Repair, whatever the           *)
(* annotations were: foldStack.back() is never read on an empty stack;     *)
(* each valid closer finds on top of the stack (its counterpart) a valid   *)
(* opener of an earlier row with its id; and the stack is empty after the  *)
(* last line (as many valid closers popped as valid openers pushed).       *)
(***************************************************************************)
C28_LinkStackNeverEmpty ==
    /\ ~linkUB
    /\ cycles >= 1 =>
          /\ \A r \in 1..Len(Events) :
                IsCloser(Events, r) =>
                    /\ Events[r].Fold.counterpart # nullptr
                    /\ \E o \in 1..(r - 1) :
                          /\ Events[o].uid = Events[r].Fold.counterpart
                          /\ IsOpener(Events, o)
                          /\ Events[o].Fold.id = Events[r].Fold.id
                          /\ Events[o].Fold.counterpart = Events[r].uid
                          /\ Balance(Events, o, r) = 0
          /\ Balance(Events, 1, Len(Events)) = 0

\* a file with a closer that has no opener before a valid fold: Repair
\* invalidated the closer and Link ran on the rest
C28_Witness ==
    /\ LastWasCycle
    /\ ~linkUB
    /\ \E f \in ValidFolds(Events) :
          \E r \in 1..(f[1] - 1) :
              /\ IsInvalidMarker(Events, r)
              /\ Events[r].Fold.side
              /\ Events[f[2]].Fold.counterpart = Events[f[1]].uid

\* the valid folds that hold row r, a fold that r opens left out
FoldsAround(ev, r) == {f \in ValidFolds(ev) : f[1] < r /\ r <= f[2]}

\* the pointer to the opener of the innermost fold of FoldsAround
InnermostOpener(ev, r) ==
    IF FoldsAround(ev, r) = {} THEN nullptr
    ELSE ev[(CHOOSE f \in FoldsAround(ev, r) :
                 \A g \in FoldsAround(ev, r) : g[1] <= f[1])[1]].uid

(***************************************************************************)
(* C29  After every Repair+Link cycle the parent of each line is the       *)
(* opener of the innermost valid fold that contains the line, null when no *)
(* valid fold contains it: the closest enclosing fold for a line without   *)
(* valid marker, the opener of its own fold for a valid closer, the opener *)
(* of the next enclosing fold for a valid opener, never the line itself.   *)
(***************************************************************************)
C29_ParentIsInnermostOpener ==
    cycles >= 1 =>
        \A r \in 1..Len(Events) :
            /\ Events[r].Fold.parent = InnermostOpener(Events, r)
            /\ Events[r].Fold.parent # Events[r].uid
            /\ IsCloser(Events, r) =>
                  \E f \in ValidFolds(Events) :
                      f[2] = r /\ Events[r].Fold.parent = Events[f[1]].uid

\* two nested folds: the inner opener's parent is the outer opener, the
\* closers' parents are their own openers, the outer opener has none
C29_Witness ==
    /\ cycles >= 1
    /\ \E f \in ValidFolds(Events), g \in ValidFolds(Events) :
          /\ StrictlyInside(f, g)
          /\ Events[g[1]].Fold.parent = nullptr
          /\ Events[f[1]].Fold.parent = Events[g[1]].uid
          /\ Events[f[2]].Fold.parent = Events[f[1]].uid
          /\ Events[g[2]].Fold.parent = Events[g[1]].uid

(***************************************************************************)
(* C30  Every Repair+Link cycle computes the derived fields anew,          *)
(* counterpart included: after a cycle a line has a counterpart that is    *)
(* not null exactly when its marker is valid, and then it is the other     *)
(* endpoint of its fold, linked both ways; a line whose marker is no       *)
(* longer valid or was removed does not point to its former counterpart.   *)
(***************************************************************************)
C30_CounterpartRecomputed ==
    cycles >= 1 =>
        \A r \in 1..Len(Events) :
            /\ Events[r].Fold.counterpart # nullptr <=> Events[r].Fold.valid
            /\ Events[r].Fold.valid =>
                  \E f \in ValidFolds(Events) :
                      /\ r \in {f[1], f[2]}
                      /\ Events[f[1]].Fold.counterpart = Events[f[2]].uid
                      /\ Events[f[2]].Fold.counterpart = Events[f[1]].uid

(***************************************************************************)
(* C31  After ClearFoldsAt(lines) and its commit, of the folds that were   *)
(* valid before the call exactly the innermost valid folds of the given    *)
(* lines are no longer valid; every other one, the folds inside or around  *)
(* a removed fold included, is still valid with its endpoints, its id and  *)
(* its collapsed state.                                                    *)
(***************************************************************************)
C31_ClearRemovesInnermostOnly ==
    [][FoldsAtCall({"ClearFoldsAt"}) =>
          \A f \in ValidFolds(Events) :
              IF f \in InnermostFolds(Events, lastOp'.lines)
              THEN /\ f \notin ValidFolds(Events')
                   /\ ~Events'[f[1]].Fold.valid
              ELSE /\ f \in ValidFolds(Events')
                   /\ Events'[f[1]].Fold.id = Events[f[1]].Fold.id
                   /\ Events'[f[1]].Fold.collapsed = Events[f[1]].Fold.collapsed
                   /\ Events'[f[2]].Fold.collapsed = Events[f[2]].Fold.collapsed]_vars

(***************************************************************************)
(* C32  After ClearAllFolds and its commit no line is a valid fold marker  *)
(* (HasFolds is false, GetMaxDepth is 0, every line is visible) and the    *)
(* annotations of both endpoints of every fold that was valid are gone,    *)
(* whatever invalid markers the file held: removing the valid folds makes  *)
(* no invalid marker valid.                                                *)
(***************************************************************************)
C32_ClearAllLeavesNoFold ==
    [][(lastOp'.op = "ClearAllFolds" /\ calls' = calls + 1) =>
          /\ \A r \in Rows : ~Events'[r].Fold.valid /\ Events'[r].Fold.visible
          /\ maxdepth' = 0
          /\ \A f \in ValidFolds(Events) :
                Events'[f[1]].extra = <<>> /\ Events'[f[2]].extra = <<>>]_vars

\* ClearAllFolds was called on a file with a valid fold and a second
\* opener of its id: that opener is still stored, and still invalid
C32_Witness ==
    /\ lastOp.op = "ClearAllFolds"
    /\ Cardinality(written) = 2
    /\ \A r \in written : Events[r].extra = <<>>
    /\ \E q \in Rows :
          /\ IsInvalidMarker(Events, q)
          /\ ~Events[q].Fold.side
          /\ Events[q].Fold.invalidCount = 2
          /\ \E o \in written, c \in written : o < q /\ q < c
    /\ \A r \in Rows : ~Events[r].Fold.valid

\* rows a < b of ev store openers of one id, no row before a stores that
\* id, and no row between a and b stores a closer
DuplicateOpener(ev, a, b) ==
    /\ a < b
    /\ Raw(ev, a).extraExists /\ ~Raw(ev, a).side
    /\ Raw(ev, b).extraExists /\ ~Raw(ev, b).side
    /\ Raw(ev, a).id = Raw(ev, b).id
    /\ \A q \in 1..(a - 1) : ~(Raw(ev, q).extraExists /\ Raw(ev, q).id = Raw(ev, a).id)
    /\ \A q \in (a + 1)..(b - 1) : ~(Raw(ev, q).extraExists /\ Raw(ev, q).side)

(***************************************************************************)
(* C33  An opener whose id is registered in foldHeads and not completed is *)
(* invalidated and not pushed, and a later closer with that id pairs with  *)
(* the first opener of the id: when rows a < b store openers of one id     *)
(* (no earlier row stores the id, no closer lies between them), the cycle  *)
(* leaves b invalid with its entry as it was, and the first closer after b *)
(* that stores the id, if no other closer lies between a and it, ends a    *)
(* valid fold that starts at a.  For opener X, opener X, closer X,         *)
(* closer X the valid fold is first opener to first closer; the second     *)
(* opener and the second closer are invalid.                               *)
(***************************************************************************)
C33_DuplicateOpenerInvalid ==
    [][CycleStep =>
          /\ \A a \in Rows, b \in Rows :
                DuplicateOpener(Events, a, b) =>
                    /\ ~Events'[b].Fold.valid
                    /\ Events'[b].Fold.invalidCount = Events[b].Fold.invalidCount + 1
                    /\ Events'[b].extra = Events[b].extra
                    /\ \A c \in (b + 1)..NumLines :
                          (/\ StoresMarker(Events, c, TRUE, Raw(Events, a).id)
                           /\ \A q \in (a + 1)..(c - 1) :
                                 ~(Raw(Events, q).extraExists /\ Raw(Events, q).side)) =>
                              /\ <<a, c>> \in ValidFolds(Events')
                              /\ Events'[c].Fold.counterpart = Events'[a].uid
          /\ (\E x \in 1..MaxId :
                  /\ \A r \in 1..2 : StoresMarker(Events, r, FALSE, x)
                  /\ \A r \in 3..4 : StoresMarker(Events, r, TRUE, x)) =>
                /\ ValidFolds(Events') = {<<1, 3>>}
                /\ IsInvalidMarker(Events', 2)
                /\ IsInvalidMarker(Events', 4)]_vars

\* the file opener X, opener X, closer X, closer X after its first cycle
C33_Witness ==
    /\ LastWasCycle
    /\ cycles = 1
    /\ ValidFolds(Events) = {<<1, 3>>}
    /\ IsInvalidMarker(Events, 2) /\ ~Events[2].Fold.side
    /\ Events[2].Fold.id = Events[1].Fold.id
    /\ IsInvalidMarker(Events, 4) /\ Events[4].Fold.side
    /\ 4 \in written

\* the pairs <<opener row, closer row>> of the stored entries of ev: an
\* opener entry and a later closer entry with its id
RawPairs(ev) ==
    {f \in (1..Len(ev)) \X (1..Len(ev)) :
        /\ f[1] < f[2]
        /\ Raw(ev, f[1]).extraExists /\ ~Raw(ev, f[1]).side
        /\ Raw(ev, f[2]).extraExists /\ Raw(ev, f[2]).side
        /\ Raw(ev, f[1]).id = Raw(ev, f[2]).id}

\* every stored entry of ev belongs to a pair whose id no other entry has,
\* the pairs are well-nested and each pair agrees on collapsed
AllPairedWellNested(ev) ==
    /\ \A r \in 1..Len(ev) :
          Raw(ev, r).extraExists =>
              /\ \E f \in RawPairs(ev) : r \in {f[1], f[2]}
              /\ Cardinality({q \in 1..Len(ev) :
                     Raw(ev, q).extraExists /\ Raw(ev, q).id = Raw(ev, r).id}) = 2
    /\ \A f \in RawPairs(ev) :
          /\ Raw(ev, f[1]).collapsed = Raw(ev, f[2]).collapsed
          /\ \A g \in RawPairs(ev) :
                f = g \/ Disjoint(f, g) \/ StrictlyInside(f, g) \/ StrictlyInside(g, f)

(***************************************************************************)
(* C34  When every parsed annotation belongs to a well-nested pair of an   *)
(* opener and a closer whose id no other pair uses, and each pair agrees   *)
(* on collapsed, Repair invalidates nothing, remaps no id and writes       *)
(* nothing to the annotation store; every such marker is valid afterwards. *)
(***************************************************************************)
C34_ConsistentFileUntouched ==
    [][(CycleStep /\ AllPairedWellNested(Events)) =>
          /\ written' = {}
          /\ minted' = <<>>
          /\ ValidFolds(Events') = RawPairs(Events)
          /\ \A r \in 1..Len(Events) :
                /\ Events'[r].extra = Events[r].extra
                /\ Events'[r].Fold.invalidCount = Events[r].Fold.invalidCount
                /\ Events'[r].Fold.valid = Raw(Events, r).extraExists
                /\ Events'[r].Fold.id = Raw(Events, r).id
                /\ Events'[r].Fold.collapsed = Raw(Events, r).collapsed
                /\ Events'[r].Fold.side = Raw(Events, r).side]_vars

\* the first cycle on a file of two nested folds, one of them collapsed:
\* nothing was written
C34_Witness ==
    /\ LastWasCycle
    /\ cycles = 1
    /\ written = {}
    /\ \E f \in ValidFolds(Events), g \in ValidFolds(Events) :
          /\ StrictlyInside(f, g)
          /\ Events[f[1]].Fold.collapsed # Events[g[1]].Fold.collapsed
    /\ \A r \in Rows : Events[r].Fold.invalidCount = 0

(***************************************************************************)
(* C35  After Repair no two valid folds share an id: each id is on at most *)
(* one valid opener and at most one valid closer, whatever the stored      *)
(* annotations were, ids that several pairs carry included.                *)
(***************************************************************************)
C35_ValidIdsUnique ==
    cycles >= 1 =>
        \A r \in 1..Len(Events), q \in 1..Len(Events) :
            (/\ r # q
             /\ Events[r].Fold.valid
             /\ Events[q].Fold.valid
             /\ Events[r].Fold.side = Events[q].Fold.side) =>
                Events[r].Fold.id # Events[q].Fold.id

\* three folds came out of a file whose entries all carried the id 1
C35_Witness ==
    /\ cycles = 1
    /\ Cardinality(ValidFolds(Events)) = 3
    /\ Cardinality({Events[f[1]].Fold.id : f \in ValidFolds(Events)}) = 3
    /\ minted # <<>>

(***************************************************************************)
(* C36  After a Repair cycle the stored annotation of a line agrees with   *)
(* its cached descriptor: a line whose annotation was parsed and kept      *)
(* stores its cached side, collapsed and id (an entry written by the cycle *)
(* is the text of the three cached values), and a line whose marker the    *)
(* cycle took over the invalidation threshold stores no annotation and is  *)
(* reported as having none.                                                *)
(***************************************************************************)
\* the last step ran a Repair cycle
AfterCycle ==
    /\ lastOp.op \in {"Commit", "CutLine", "PasteLine", "AddFold"}
    /\ HookRuns(lastOp.type)

\* the last cycle invalidated the marker of row r for the time
\* InvalidThreshold + 1 or later
CrossedThreshold(r) ==
    /\ Events[r].streak >= 1
    /\ Events[r].Fold.invalidCount > InvalidThreshold

C36_StorageAgreesWithDescriptor ==
    AfterCycle =>
        \A r \in 1..Len(Events) :
            /\ Events[r].Fold.extraExists =>
                   /\ Events[r].extra # <<>>
                   /\ \E raw \in {Raw(Events, r)} :
                          /\ raw.extraExists
                          /\ raw.side = Events[r].Fold.side
                          /\ raw.collapsed = Events[r].Fold.collapsed
                          /\ raw.id = Events[r].Fold.id
            /\ (r \in written /\ Events[r].Fold.extraExists) =>
                   Events[r].extra = <<FormatFold(Events[r].Fold.side,
                                                  Events[r].Fold.collapsed,
                                                  Events[r].Fold.id)>>
            /\ CrossedThreshold(r) =>
                   /\ Events[r].extra = <<>>
                   /\ ~Events[r].Fold.extraExists
                   /\ ~Events[r].Fold.valid
                   /\ r \in written

\* one cycle deleted the entry of a marker that crossed the threshold and
\* wrote the entry of a marker it kept
C36_Witness ==
    /\ AfterCycle
    /\ \E r \in 1..Len(Events), q \in 1..Len(Events) :
           /\ CrossedThreshold(r)
           /\ Events[r].extra = <<>>
           /\ q \in written
           /\ Events[q].Fold.extraExists
           /\ Events[q].extra # <<>>

(***************************************************************************)
(* C37  Repair (ReadFromExtradata, then FixFolds) never changes the side   *)
(* of a marker and never changes the collapsed value of an opener.  Of the *)
(* fields it parsed it alters only ids, to ids minted by the remapping of  *)
(* this cycle, and the collapsed value of a closer, to the value of the    *)
(* opener it is matched with; the fields of the links are left to          *)
(* LinkFolds, which in turn leaves side, collapsed and id alone.           *)
(***************************************************************************)
\* the ids a scan minted
MintedIds(mint) == {mint[i] : i \in 1..Len(mint)}

\* FixFolds took the descriptor a of row r to b, in the scan result fx of
\* the parsed lines rd
RepairFrame(rd, fx, r, a, b) ==
    /\ b.side = a.side
    /\ (a.extraExists /\ a.side) \/ b.collapsed = a.collapsed
    /\ b.collapsed # a.collapsed =>
           /\ b.valid
           /\ \E o \in 1..(r - 1) :
                  /\ rd[o].Fold.extraExists
                  /\ ~rd[o].Fold.side
                  /\ fx.ev[o].Fold.valid
                  /\ fx.ev[o].Fold.id = b.id
                  /\ fx.ev[o].Fold.collapsed = rd[o].Fold.collapsed
                  /\ b.collapsed = rd[o].Fold.collapsed
    /\ b.id # a.id => a.extraExists /\ b.id \in MintedIds(fx.minted)
    /\ b.visible = a.visible
    /\ b.counterpart = a.counterpart
    /\ b.parent = a.parent
    /\ b.nextVisible = a.nextVisible
    /\ b.visibleRow = a.visibleRow

C37_RepairFrame ==
    [][CycleStep =>
          \E rd \in {ReadFromExtradata(Events)} :
          \E fx \in {FixFolds(rd.ev, rd.max_fold_id, {}, <<>>)} :
              \A r \in 1..Len(Events) :
                  /\ RepairFrame(rd.ev, fx, r, rd.ev[r].Fold, fx.ev[r].Fold)
                  /\ Events'[r].Fold.side = fx.ev[r].Fold.side
                  /\ Events'[r].Fold.collapsed = fx.ev[r].Fold.collapsed
                  /\ Events'[r].Fold.id = fx.ev[r].Fold.id
                  /\ Events'[r].Fold.side = Events[r].Fold.side
                         \/ Raw(Events, r).extraExists]_vars

\* the first cycle minted an id and wrote the closer of a valid fold whose
\* id it did not change: the collapsed value of its opener
C37_Witness ==
    /\ LastWasCycle
    /\ cycles = 1
    /\ minted # <<>>
    /\ \E f \in ValidFolds(Events) :
           /\ f[2] \in written
           /\ Events[f[2]].Fold.id \notin MintedIds(minted)
           /\ Events[f[2]].Fold.collapsed = Events[f[1]].Fold.collapsed

(***************************************************************************)
(* C38  At every point of the scan of FixFolds (before a line, and after   *)
(* its id is remapped) every id that is in foldHeads and not in            *)
(* completedFolds is the id of exactly one opener on the stack; so a       *)
(* closer whose remapped id is in foldHeads finds its opener on the stack, *)
(* and the branch "not found" of the search is never taken.                *)
(***************************************************************************)
\* the scan of FixFolds before the first line
ScanStart(rd) ==
    [ev |-> rd.ev, foldStack |-> <<>>, foldHeads |-> {},
     completedFolds |-> {}, idRemap |-> <<>>,
     max_fold_id |-> rd.max_fold_id, written |-> {}, minted |-> <<>>]

\* the scan st, at line r, after the lines r..k
RECURSIVE ScanAfter(_, _, _)
ScanAfter(st, r, k) ==
    IF r > k THEN st
    ELSE Bind(FixLine(st, r), LAMBDA s : ScanAfter(s, r + 1, k))

\* the entries of the stack with the id
StackEntries(st, id) ==
    {i \in 1..Len(st.foldStack) : st.ev[st.foldStack[i]].Fold.id = id}

HeadsOnStack(st) ==
    \A id \in st.foldHeads \ st.completedFolds :
        /\ Cardinality(StackEntries(st, id)) = 1
        /\ \A i \in StackEntries(st, id) :
               /\ st.ev[st.foldStack[i]].Fold.extraExists
               /\ ~st.ev[st.foldStack[i]].Fold.side

\* line r, its id remapped in the scan m, is a closer that goes to the
\* search of the stack
SearchesStack(m, r) ==
    /\ m.ev[r].Fold.extraExists
    /\ m.ev[r].Fold.side
    /\ m.ev[r].Fold.id \in m.foldHeads

C38_HeadsAreOnStack ==
    [][CycleStep =>
          \E rd \in {ReadFromExtradata(Events)} :
              \A k \in 0..Len(Events) :
                  \E st \in {ScanAfter(ScanStart(rd), 1, k)} :
                      /\ HeadsOnStack(st)
                      /\ k < Len(Events) =>
                             \E m \in {RemapLine(st, k + 1).st} :
                                 /\ HeadsOnStack(m)
                                 /\ SearchesStack(m, k + 1) =>
                                        /\ m.ev[k + 1].Fold.id \notin m.completedFolds
                                        /\ StackEntries(m, m.ev[k + 1].Fold.id) # {}]_vars

\* crossing folds: the cycle matched the closer at c with the opener at a
\* and erased the opener at b from the stack; the closer at d with the id of
\* b came after, got a minted id and was invalidated as an ender with no head
C38_Witness ==
    /\ LastWasCycle
    /\ cycles = 1
    /\ \E a \in Rows, b \in Rows, c \in Rows, d \in Rows :
           /\ a < b /\ b < c /\ c < d
           /\ <<a, c>> \in ValidFolds(Events)
           /\ IsInvalidMarker(Events, b) /\ ~Events[b].Fold.side
           /\ IsInvalidMarker(Events, d) /\ Events[d].Fold.side
           /\ d \in written
           /\ Events[d].Fold.id \in MintedIds(minted)
           /\ Events[b].Fold.id # Events[a].Fold.id

====
